---- MODULE Spec2Model ----
(***************************************************************************)
(* Verification model of the games-platform core:                          *)
(*   - the memory game store (memoStore.ts) together with the components   *)
(*     that drive it (Home page, MemoGame, MemorizationPhase, PlayingPhase,*)
(*     DefeatModal, PrizePhase);                                           *)
(*   - the 1 Hz clock service (clockService.ts);                           *)
(*   - the roulette spin session (useRouletteLogic.ts, physics.ts,         *)
(*     gameStore.ts).                                                      *)
(* The subsystems share no state; each has its own specification.          *)
(***************************************************************************)
EXTENDS Integers, Sequences, FiniteSets, TLC

(***************************************************************************)
(* Bounds of the model (scaled-down sizes, not values of the program).     *)
(***************************************************************************)
\* pairs in a deck (the program deals totalPairs = 6)
TotalPairs == 3
\* seconds on the play countdown (the program starts timeRef at 120)
GameTicks == 2
\* seconds of the memorization countdown (the program uses 5)
MemorizationTime == 2
\* longest countdown handed to the clock, in seconds
MaxDuration == 2
\* longest countdown of the runs whose timer fires on every second
MaxExactDuration == 5
\* calls of Clock.start in one behaviour
MaxStarts == 2
\* steps of the wall clock per second (Date.now() resolution of the model)
SubSeconds == 2
\* interval timers the browser is asked to keep at once
MaxTimers == 2
\* segments on the wheel (segments.length)
NumSegments == 3
\* frames of one spin (the program uses spinDuration = 120)
SpinFrames == 3
\* final angles a spin can stop at, per segment of the wheel
StopsPerSegment == 2
\* frames that may run again on a spinState whose update is not rendered yet
MaxStale == 2
\* largest angle, in degrees either side of 0, handed to calculateWinningSegment
MaxProbeAngle == 400
\* largest wheel handed to calculateWinningSegment
MaxProbeSegments == 6
MaxQuestions == 6
\* seconds a trivia question allows (initialSeconds)
QuestionSeconds == 5
\* options of a trivia question
NumOptions == 3
\* trivia questions shown in a run
MaxRounds == 2

(***************************************************************************)
(* Program constants.                                                      *)
(***************************************************************************)
requiredPairs == 2
maxMoves == 3
NoScore == -1
NoCard == 0
PrototypeKey == -1
NoTimer == 0
NoCallback == 0
maxHistoryLength == 3
MinRotations == 3
MaxRotations == 5
NoIndex == -1
NoAngle == -1
NoColor == "none"

VARIABLES
  memo,          \* the zustand store of the memory game
  showWaiting,   \* Home: the waiting screen is shown
  gameMounted,   \* MemoGame is mounted
  startTimer,    \* MemoGame: the 500 ms timer before startShuffling is pending
  prizeTimer,    \* MemoGame: the 1500 ms timer before initializePrizePhase is pending
  memoPhase,     \* MemorizationPhase: local phase, "unmounted" when not mounted
  memoTimeLeft,  \* MemorizationPhase: local countdown
  timeRef,       \* PlayingPhase: timeRef.current
  rafLive,       \* PlayingPhase: the rAF countdown loop is requested
  matchTimer,    \* PlayingPhase: the pending 600 ms reveal timer, <<>> or <<first, second>>
  innerCheck,    \* PlayingPhase: pending 100 ms win checks (never cancelled)
  replayTimer,   \* DefeatModal: pending 100 ms startShuffling timers (never cancelled)
  lastCall,      \* history: the last handler that ran on the memory game
  attempts       \* history: two-card attempts completed since the run began

VARIABLES
  clock,         \* the ClockService instance and the browser's interval timers
  ticks,         \* history: the values passed to onTick since the last start
  lastCb,        \* history: the callback that received the last value
  started,       \* history: calls of start so far (the n-th start passes callback n)
  lastClockCall, \* history: the last clock operation that ran
  wasResumed,    \* history: resume restarted the countdown since the last start
  replacedLive   \* history: the last start replaced a running or paused countdown

VARIABLES
  spinState,     \* useRouletteLogic: the rendered spinState (what the closures see)
  pendingSpin,   \* the value handed to setSpinState and not rendered yet, or <<>>
  gameStore,     \* the zustand store of the roulette (result index and history)
  staleFrames,   \* frames run on the rendered state since setSpinState was called
  resolved,      \* history: winners recorded since the last effective startSpin
  physical,      \* history: the winningIndex the last handleSpinComplete computed
  lengthBefore,  \* history: the length of the spin history when it was called
  spinCall,      \* history: the last roulette operation that ran
  segmentsLength \* useRouletteLogic: segments.length, the wheel built from the questions

VARIABLES
  probe,         \* a memory-game store on which checkGameEnd is called directly
  probeTime,     \* the timeRemaining argument of that call
  probeDone,     \* the call has been made
  wheelProbe,    \* a direct call of calculateWinningSegment with its results, or <<>>
  buildProbe,    \* a direct call of createRouletteSegments with its result, or <<>>
  flipProbe,     \* a memory-game store driven by direct calls of its operations, or <<>>
  easeProbe      \* a direct call of customEasingFunction with its results, or <<>>

VARIABLES
  questionLogic, \* useQuestionLogic: the local state and hasTimeUpExecutedRef
  timer,         \* useTimer: seconds, isRunning and hasTimeUpFiredRef
  reveal,        \* handleAnswer waiting out its 400 ms delay: <<>> or <<option>>
  quizStore,     \* the roulette store: gameState and prizeFeedback
  prizeTimers,   \* pending timers to setGameState('prize') (never cancelled)
  answered,      \* history: the results handed to onAnswered for this question
  feedbackWrites,\* history: calls of setPrizeFeedback for this question
  round          \* history: questions shown so far

memoVars == <<memo, showWaiting, gameMounted, startTimer, prizeTimer, memoPhase,
              memoTimeLeft, timeRef, rafLive, matchTimer, innerCheck, replayTimer,
              lastCall, attempts>>
clockVars == <<clock, ticks, lastCb, started, lastClockCall, wasResumed, replacedLive>>
spinVars == <<spinState, pendingSpin, gameStore, staleFrames, resolved, physical,
              lengthBefore, spinCall,
              segmentsLength>>
probeVars == <<probe, probeTime, probeDone, wheelProbe, buildProbe, flipProbe,
              easeProbe>>
quizVars == <<questionLogic, timer, reveal, quizStore, prizeTimers, answered,
              feedbackWrites, round>>
vars == <<memoVars, clockVars, spinVars, probeVars, quizVars>>

(***************************************************************************)
(* memoService                                                             *)
(***************************************************************************)
CardIds == 1..(2 * TotalPairs)

\* value-<index> of card-<index>-<i>
CardValue(c) == (c + 1) \div 2

Reverse(s) == [i \in 1..Len(s) |-> s[Len(s) + 1 - i]]

\* The orders generateCards may deal (two of the permutations of the shuffle).
Decks == { [i \in CardIds |-> i], Reverse([i \in CardIds |-> i]) }

freshCards == [c \in CardIds |-> [isFlipped |-> FALSE, isMatched |-> FALSE]]

checkMatch(c1, c2) == CardValue(c1) = CardValue(c2)

Max(a, b) == IF a >= b THEN a ELSE b

\* validateGameState with the moves test ahead of the win test
validateMovesFirst(matchesFound, movesUsed, timeRemaining) ==
  IF movesUsed >= maxMoves
    THEN [hasWon |-> FALSE, hasFailed |-> TRUE, reason |-> "max_moves"]
  ELSE IF matchesFound >= requiredPairs
    THEN [hasWon |-> TRUE, hasFailed |-> FALSE, reason |-> "success"]
  ELSE IF timeRemaining <= 0
    THEN [hasWon |-> FALSE, hasFailed |-> TRUE, reason |-> "time_up"]
  ELSE [hasWon |-> FALSE, hasFailed |-> FALSE, reason |-> "none"]

validateGameState(matchesFound, movesUsed, timeRemaining) ==
  IF matchesFound >= requiredPairs
    THEN [hasWon |-> TRUE, hasFailed |-> FALSE, reason |-> "success"]
  ELSE IF movesUsed >= maxMoves
    THEN [hasWon |-> FALSE, hasFailed |-> TRUE, reason |-> "max_moves"]
  ELSE IF timeRemaining <= 0
    THEN [hasWon |-> FALSE, hasFailed |-> TRUE, reason |-> "time_up"]
  ELSE [hasWon |-> FALSE, hasFailed |-> FALSE, reason |-> "none"]

\* config.gameTime, the seconds of a game: the value the play countdown
\* starts from (both are 120 in the program)
gameTime == GameTicks

calculateScore(movesUsed, timeElapsed) ==
  LET baseScore == 1000
      movePenalty == (movesUsed - 1) * 100
      timeBonus == Max(0, gameTime - timeElapsed) * 2
  IN Max(0, baseScore - movePenalty + timeBonus)

(***************************************************************************)
(* memoStore: every action of the store as a function of the store state.  *)
(***************************************************************************)
INITIAL_STATS ==
  [movesUsed |-> 0, matchesFound |-> 0, timeElapsed |-> 0, score |-> 0,
   bestScore |-> NoScore]

initialStore ==
  [gameState |-> "waiting", cardsById |-> <<>>, cardOrder |-> <<>>,
   selectedCards |-> <<>>, stats |-> INITIAL_STATS, isProcessing |-> FALSE]

initGame(s, deck) ==
  [gameState |-> "waiting", cardsById |-> freshCards, cardOrder |-> deck,
   selectedCards |-> <<>>,
   stats |-> [INITIAL_STATS EXCEPT !.bestScore = s.stats.bestScore],
   isProcessing |-> FALSE]

startShuffling(s, deck) ==
  [s EXCEPT !.gameState = "shuffling", !.cardsById = freshCards, !.cardOrder = deck]

startMemorizing(s) ==
  [s EXCEPT !.gameState = "memorizing",
            !.cardsById = [c \in DOMAIN s.cardsById |->
                             [s.cardsById[c] EXCEPT !.isFlipped = TRUE]]]

\* startPlaying that leaves the faces as they are
startPlayingFacesKept(s) == [s EXCEPT !.gameState = "playing"]

startPlaying(s) ==
  [s EXCEPT !.gameState = "playing",
            !.cardsById = [c \in DOMAIN s.cardsById |->
                             [s.cardsById[c] EXCEPT !.isFlipped = FALSE]]]

resetGame(s) ==
  [gameState |-> "waiting", cardsById |-> <<>>, cardOrder |-> <<>>,
   selectedCards |-> <<>>,
   stats |-> [INITIAL_STATS EXCEPT !.bestScore = s.stats.bestScore],
   isProcessing |-> FALSE]

\* restartGame that leaves the statistics of the run before
restartGameKeepingStats(s, deck) ==
  [gameState |-> "shuffling", cardsById |-> freshCards, cardOrder |-> deck,
   selectedCards |-> <<>>,
   stats |-> s.stats,
   isProcessing |-> FALSE]

restartGame(s, deck) ==
  [gameState |-> "shuffling", cardsById |-> freshCards, cardOrder |-> deck,
   selectedCards |-> <<>>,
   stats |-> [INITIAL_STATS EXCEPT !.bestScore = s.stats.bestScore],
   isProcessing |-> FALSE]

\* state.cardsById[cardId]: cardsById is a plain object, so a key it does not
\* hold itself is looked up in Object.prototype, whose members are objects
\* without isFlipped and isMatched (read as undefined, which tests false);
\* any other missing key gives undefined
hasCard(cardsById, cardId) ==
  cardId \in DOMAIN cardsById \/ cardId = PrototypeKey

\* the object the lookup gives when it gives one
lookupCard(cardsById, cardId) ==
  IF cardId \in DOMAIN cardsById
    THEN cardsById[cardId]
    ELSE [isFlipped |-> FALSE, isMatched |-> FALSE]

\* flipCard that looks at the phase only
flipCardBlockedByPhase(s) == s.gameState # "playing"

\* the validations flipCard makes before it reads the card
flipCardBlocked(s) ==
  s.gameState # "playing" \/ Len(s.selectedCards) >= 2 \/ s.isProcessing

\* flipCard without the phase guard
flipCardAnyPhase(s, cardId) ==
  IF Len(s.selectedCards) >= 2 \/ s.isProcessing
    THEN s
  ELSE IF ~hasCard(s.cardsById, cardId)
    THEN s
  ELSE LET card == lookupCard(s.cardsById, cardId)
       IN IF card.isFlipped \/ card.isMatched
            THEN s
          ELSE LET newSelectedCards == Append(s.selectedCards, cardId)
                   newCardsById ==
                     [id \in DOMAIN s.cardsById \cup {cardId} |->
                        IF id = cardId THEN [card EXCEPT !.isFlipped = TRUE]
                                       ELSE s.cardsById[id]]
                   flipped == [s EXCEPT !.cardsById = newCardsById,
                                        !.selectedCards = newSelectedCards]
               IN IF Len(newSelectedCards) = 2
                    THEN [flipped EXCEPT !.isProcessing = TRUE,
                                         !.stats.movesUsed = s.stats.movesUsed + 1]
                    ELSE flipped

flipCard(s, cardId) ==
  IF flipCardBlocked(s)
    THEN s
  ELSE IF ~hasCard(s.cardsById, cardId)
    THEN s
  ELSE LET card == lookupCard(s.cardsById, cardId)
       IN IF card.isFlipped \/ card.isMatched
            THEN s
          ELSE LET newSelectedCards == Append(s.selectedCards, cardId)
                   newCardsById ==
                     [id \in DOMAIN s.cardsById \cup {cardId} |->
                        IF id = cardId THEN [card EXCEPT !.isFlipped = TRUE]
                                       ELSE s.cardsById[id]]
                   flipped == [s EXCEPT !.cardsById = newCardsById,
                                        !.selectedCards = newSelectedCards]
               IN IF Len(newSelectedCards) = 2
                    THEN [flipped EXCEPT !.isProcessing = TRUE,
                                         !.stats.movesUsed = s.stats.movesUsed + 1]
                    ELSE flipped

\* handleMatchCheck that counts the two cards of the pair
handleMatchCheckPerCard(s, firstCardId, secondCardId) ==
  IF firstCardId \notin DOMAIN s.cardsById \/ secondCardId \notin DOMAIN s.cardsById
    THEN s
  ELSE [s EXCEPT !.cardsById[firstCardId].isMatched = TRUE,
                 !.cardsById[secondCardId].isMatched = TRUE,
                 !.stats.matchesFound = s.stats.matchesFound + 2,
                 !.selectedCards = <<>>,
                 !.isProcessing = FALSE]

handleMatchCheck(s, firstCardId, secondCardId) ==
  IF firstCardId \notin DOMAIN s.cardsById \/ secondCardId \notin DOMAIN s.cardsById
    THEN s
  ELSE [s EXCEPT !.cardsById[firstCardId].isMatched = TRUE,
                 !.cardsById[secondCardId].isMatched = TRUE,
                 !.stats.matchesFound = s.stats.matchesFound + 1,
                 !.selectedCards = <<>>,
                 !.isProcessing = FALSE]

\* handleNoMatch that counts the mismatch as one more move
handleNoMatchCounting(s) ==
  LET sel == { s.selectedCards[i] : i \in 1..Len(s.selectedCards) }
  IN [s EXCEPT !.cardsById = [c \in DOMAIN s.cardsById |->
                                IF c \in sel
                                  THEN [s.cardsById[c] EXCEPT !.isFlipped = FALSE]
                                  ELSE s.cardsById[c]],
               !.selectedCards = <<>>,
               !.isProcessing = FALSE,
               !.stats.movesUsed = s.stats.movesUsed + 1]

handleNoMatch(s) ==
  LET sel == { s.selectedCards[i] : i \in 1..Len(s.selectedCards) }
  IN [s EXCEPT !.cardsById = [c \in DOMAIN s.cardsById |->
                                IF c \in sel
                                  THEN [s.cardsById[c] EXCEPT !.isFlipped = FALSE]
                                  ELSE s.cardsById[c]],
               !.selectedCards = <<>>,
               !.isProcessing = FALSE]

initializePrizePhase(s) == [s EXCEPT !.gameState = "prize"]

\* checkGameEnd that keeps the score of the last win as the best
checkGameEndLastWin(s, timeRemaining) ==
  LET validation == validateGameState(s.stats.matchesFound, s.stats.movesUsed,
                                      timeRemaining)
      score == calculateScore(s.stats.movesUsed, s.stats.timeElapsed)
  IN IF validation.hasWon
       THEN [s EXCEPT !.gameState = "success",
                      !.stats.score = score,
                      !.stats.bestScore = score]
     ELSE IF validation.hasFailed
       THEN [s EXCEPT !.gameState = "failed"]
     ELSE s

checkGameEnd(s, timeRemaining) ==
  LET validation == validateGameState(s.stats.matchesFound, s.stats.movesUsed,
                                      timeRemaining)
      score == calculateScore(s.stats.movesUsed, s.stats.timeElapsed)
      best == s.stats.bestScore
  IN IF validation.hasWon
       THEN [s EXCEPT !.gameState = "success",
                      !.stats.score = score,
                      !.stats.bestScore =
                         IF best = NoScore \/ best = 0 \/ score > best
                           THEN score ELSE best]
     ELSE IF validation.hasFailed
       THEN [s EXCEPT !.gameState = "failed"]
     ELSE s

(***************************************************************************)
(* The components that drive the store.  A store update re-renders the     *)
(* subscribed components synchronously, so the effects an update triggers  *)
(* (mounting, unmounting, effect clean-ups, effect bodies) are part of the *)
(* step that made the update.                                              *)
(***************************************************************************)
\* the local state of the components, as a record an action can amend
UI ==
  [showWaiting |-> showWaiting, gameMounted |-> gameMounted,
   startTimer |-> startTimer, prizeTimer |-> prizeTimer,
   memoPhase |-> memoPhase, memoTimeLeft |-> memoTimeLeft,
   timeRef |-> timeRef, rafLive |-> rafLive, matchTimer |-> matchTimer,
   innerCheck |-> innerCheck, replayTimer |-> replayTimer]

\* MemoGame renders MemorizationPhase / PlayingPhase / DefeatModal / PrizePhase
MemorizationMounted == gameMounted /\ memo.gameState \in {"shuffling", "memorizing"}
PlayingMounted == gameMounted /\ memo.gameState = "playing"
DefeatMounted == gameMounted /\ memo.gameState = "failed"
PrizeMounted == gameMounted /\ memo.gameState = "prize"

\* PlayingPhase, match effect: the face-up unmatched cards in cardOrder
FlippedCards(s) ==
  SelectSeq(s.cardOrder,
            LAMBDA id : s.cardsById[id].isFlipped /\ ~s.cardsById[id].isMatched)

\* the effect with a test for more than maxMoves attempts
MovesEffectAboveMax(s1, t) ==
  IF /\ gameMounted
     /\ s1.gameState = "playing"
     /\ \/ memo.gameState # "playing"
        \/ s1.stats.movesUsed # memo.stats.movesUsed
        \/ s1.stats.matchesFound # memo.stats.matchesFound
        \/ s1.isProcessing # memo.isProcessing
     /\ s1.stats.movesUsed > maxMoves
     /\ s1.stats.matchesFound < requiredPairs
     /\ ~s1.isProcessing
    THEN checkGameEnd(s1, t)
    ELSE s1

\* PlayingPhase, "check derrota por movimientos" effect, run after the update
\* that produced s1 (t is timeRef.current)
MovesEffect(s1, t) ==
  IF /\ gameMounted
     /\ s1.gameState = "playing"
     /\ \/ memo.gameState # "playing"
        \/ s1.stats.movesUsed # memo.stats.movesUsed
        \/ s1.stats.matchesFound # memo.stats.matchesFound
        \/ s1.isProcessing # memo.isProcessing
     /\ s1.stats.movesUsed >= maxMoves
     /\ s1.stats.matchesFound < requiredPairs
     /\ ~s1.isProcessing
    THEN checkGameEnd(s1, t)
    ELSE s1

\* Commit the store state s2 and the local state ui an action asks for, and
\* run what the re-render implies: Home's effect (back to the waiting screen
\* when the phase becomes waiting), mounting and unmounting of the phase
\* components with their effect clean-ups, MemoGame's success effect and
\* PlayingPhase's match effect.
Commit(s2, ui) ==
  LET back == s2.gameState = "waiting" /\ memo.gameState # "waiting" /\ ~ui.showWaiting
      gm == ui.gameMounted /\ ~back
      wasMemo == MemorizationMounted
      isMemo == gm /\ s2.gameState \in {"shuffling", "memorizing"}
      wasPlay == PlayingMounted
      isPlay == gm /\ s2.gameState = "playing"
      wasSuccess == gameMounted /\ memo.gameState = "success"
      isSuccess == gm /\ s2.gameState = "success"
      flipped == FlippedCards(s2)
      snapshot == IF s2.isProcessing /\ Len(flipped) = 2 THEN flipped ELSE <<>>
  IN /\ memo' = s2
     /\ showWaiting' = (ui.showWaiting \/ back)
     /\ gameMounted' = gm
     /\ startTimer' = (ui.startTimer /\ gm)
     /\ prizeTimer' = IF ~isSuccess THEN FALSE
                      ELSE IF ~wasSuccess THEN TRUE ELSE ui.prizeTimer
     /\ memoPhase' = IF ~isMemo THEN "unmounted"
                     ELSE IF ~wasMemo THEN "shuffling" ELSE ui.memoPhase
     /\ memoTimeLeft' = IF ~isMemo \/ ~wasMemo THEN 0 ELSE ui.memoTimeLeft
     /\ timeRef' = IF isPlay /\ ~wasPlay THEN GameTicks ELSE ui.timeRef
     /\ rafLive' = IF ~isPlay THEN FALSE
                   ELSE IF ~wasPlay THEN TRUE ELSE ui.rafLive
     /\ matchTimer' = IF ~isPlay THEN <<>>
                      ELSE IF ~wasPlay \/ s2.isProcessing # memo.isProcessing
                             THEN snapshot
                      ELSE ui.matchTimer
     /\ innerCheck' = ui.innerCheck
     /\ replayTimer' = ui.replayTimer
     /\ attempts' = IF s2.gameState \in {"waiting", "shuffling"}
                       /\ s2.gameState # memo.gameState
                      THEN 0
                    ELSE IF Len(s2.selectedCards) = 2 /\ Len(memo.selectedCards) < 2
                      THEN attempts + 1
                    ELSE attempts

\* a handler named call leaves the store at s1 and the local state at ui
Handler(call, s1, ui) ==
  /\ Commit(MovesEffect(s1, ui.timeRef), ui)
  /\ lastCall' = call
  /\ UNCHANGED <<clockVars, spinVars, probeVars, quizVars>>

\* A 100 ms timer set earlier fires before any longer timer set after it.
ShortPending == innerCheck > 0 \/ replayTimer > 0

(***************************************************************************)
(* Handlers of the memory game.                                            *)
(***************************************************************************)
\* Home.handleStartGame: a tap on the waiting screen
TapWaiting ==
  /\ showWaiting
  /\ Handler("handleStartGame", memo, [UI EXCEPT !.showWaiting = FALSE])

\* MemoGame mounts once the waiting screen has left: initGame, then the
\* 500 ms timer to startShuffling
MountGame ==
  /\ ~showWaiting /\ ~gameMounted /\ ~ShortPending
  /\ \E deck \in Decks :
       Handler("mountGame", initGame(memo, deck),
               [UI EXCEPT !.gameMounted = TRUE, !.startTimer = TRUE])

StartTimerFire ==
  /\ startTimer /\ ~ShortPending
  /\ \E deck \in Decks :
       Handler("startTimer", startShuffling(memo, deck),
               [UI EXCEPT !.startTimer = FALSE])

\* MemorizationPhase: the shuffle timer (shuffleAnimationTime)
ShuffleTimerFire ==
  /\ memoPhase = "shuffling" /\ ~ShortPending
  /\ Handler("shuffleTimer", startMemorizing(memo),
             [UI EXCEPT !.memoPhase = "memorizing",
                        !.memoTimeLeft = MemorizationTime])

\* MemorizationPhase: one tick of the memorization countdown
MemorizeTick ==
  /\ memoPhase = "memorizing" /\ memoTimeLeft > 0 /\ ~ShortPending
  /\ Handler("memorizeTick", memo,
             IF memoTimeLeft <= 1
               THEN [UI EXCEPT !.memoPhase = "hiding", !.memoTimeLeft = 0]
               ELSE [UI EXCEPT !.memoTimeLeft = memoTimeLeft - 1])

\* MemorizationPhase: the hiding timer
HideTimerFire ==
  /\ memoPhase = "hiding" /\ ~ShortPending
  /\ Handler("hideTimer", startPlaying(memo), UI)

\* PlayingPhase: a frame of the rAF loop on which a second has passed
PlayTick ==
  /\ rafLive
  /\ LET t == Max(0, timeRef - 1)
     IN IF t = 0
          THEN Handler("playTick", checkGameEnd(memo, 0),
                       [UI EXCEPT !.timeRef = t, !.rafLive = FALSE])
          ELSE Handler("playTick", memo, [UI EXCEPT !.timeRef = t])

\* flipCard(cardId), from PlayingPhase.handleCardClick or any other caller
FlipCard(cardId) ==
  /\ cardId \in CardIds \cup {NoCard}
  /\ Handler("flipCard", flipCard(memo, cardId), UI)

\* PlayingPhase: the 600 ms reveal timer of the match effect
MatchTimerFire ==
  /\ matchTimer # <<>> /\ ~ShortPending
  /\ LET first == matchTimer[1]
         second == matchTimer[2]
     IN IF checkMatch(first, second)
          THEN Handler("matchTimer", handleMatchCheck(memo, first, second),
                       [UI EXCEPT !.matchTimer = <<>>,
                                  !.innerCheck = innerCheck + 1])
          ELSE Handler("matchTimer", handleNoMatch(memo),
                       [UI EXCEPT !.matchTimer = <<>>])

\* PlayingPhase: the 100 ms timer set after a match
InnerCheckFire ==
  /\ innerCheck > 0
  /\ Handler("innerCheck",
             IF memo.stats.matchesFound >= requiredPairs
               THEN checkGameEnd(memo, timeRef) ELSE memo,
             [UI EXCEPT !.innerCheck = innerCheck - 1])

\* MemoGame: the 1500 ms timer of the success effect
PrizeTimerFire ==
  /\ prizeTimer /\ ~ShortPending
  /\ Handler("prizeTimer", initializePrizePhase(memo),
             [UI EXCEPT !.prizeTimer = FALSE])

\* DefeatModal.handlePlayAgain
DefeatPlayAgain ==
  /\ DefeatMounted
  /\ \E deck \in Decks :
       Handler("defeatPlayAgain", initGame(memo, deck),
               [UI EXCEPT !.replayTimer = replayTimer + 1])

\* DefeatModal: the 100 ms timer of handlePlayAgain
ReplayTimerFire ==
  /\ replayTimer > 0 /\ innerCheck = 0
  /\ \E deck \in Decks :
       Handler("replayTimer", startShuffling(memo, deck),
               [UI EXCEPT !.replayTimer = replayTimer - 1])

\* DefeatModal.handleBackToStart
DefeatBackToStart ==
  /\ DefeatMounted
  /\ Handler("defeatBackToStart", resetGame(memo), UI)

\* PrizePhase.handlePlayAgain
PrizePlayAgain ==
  /\ PrizeMounted
  /\ \E deck \in Decks : Handler("prizePlayAgain", restartGame(memo, deck), UI)

\* PrizePhase: "volver al inicio"
PrizeBackToStart ==
  /\ PrizeMounted
  /\ Handler("prizeBackToStart", resetGame(memo), UI)

(***************************************************************************)
(* clockService.  Date.now() - startTime is kept as one quantity, since,   *)
(* counted in 1/SubSeconds of a second; the wall clock never runs          *)
(* backwards.  timers maps every live interval timer of the browser to the *)
(* time left until it is due.                                              *)
(***************************************************************************)
initialClock ==
  [intervalId |-> NoTimer, since |-> 0, duration |-> 0, elapsed |-> 0,
   callback |-> NoCallback, isRunning |-> FALSE, timers |-> <<>>]

\* window.setInterval(closure, 1000), stored in this.intervalId
setInterval(c) ==
  LET id == CHOOSE i \in 1..MaxTimers :
              /\ i \notin DOMAIN c.timers
              /\ \A j \in 1..(i - 1) : j \in DOMAIN c.timers
  IN [c EXCEPT !.timers = [t \in DOMAIN c.timers \cup {id} |->
                             IF t = id THEN SubSeconds ELSE c.timers[t]],
               !.intervalId = id]

clearInterval(c, id) ==
  [c EXCEPT !.timers = [t \in DOMAIN c.timers \ {id} |-> c.timers[t]]]

stop(c) ==
  LET c1 == IF c.intervalId # NoTimer
              THEN [clearInterval(c, c.intervalId) EXCEPT !.intervalId = NoTimer]
              ELSE c
  IN [c1 EXCEPT !.isRunning = FALSE, !.callback = NoCallback]

pause(c) ==
  LET c1 == IF c.intervalId # NoTimer
              THEN [clearInterval(c, c.intervalId) EXCEPT !.intervalId = NoTimer]
              ELSE c
  IN [c1 EXCEPT !.isRunning = FALSE]

\* start that does not stop the countdown it replaces
startWithoutStop(c, seconds, onTick) ==
  setInterval([c EXCEPT !.duration = seconds, !.elapsed = 0,
                        !.callback = onTick, !.isRunning = TRUE,
                        !.since = 0])

\* start(seconds, onTick); onTick(seconds) is called between the assignments
\* and setInterval
start(c, seconds, onTick) ==
  setInterval([stop(c) EXCEPT !.duration = seconds, !.elapsed = 0,
                              !.callback = onTick, !.isRunning = TRUE,
                              !.since = 0])

\* start(seconds, onTick) with an onTick that calls stop() when it is handed
\* the initial value: stop() runs between the assignments and setInterval
startStoppingInCallback(c, seconds, onTick) ==
  setInterval(stop([stop(c) EXCEPT !.duration = seconds, !.elapsed = 0,
                                   !.callback = onTick, !.isRunning = TRUE,
                                   !.since = 0]))

\* resume that keeps the startTime of the original start
resumeKeepingStartTime(c) ==
  IF c.isRunning \/ c.callback = NoCallback
    THEN c
    ELSE setInterval([c EXCEPT !.isRunning = TRUE])

resume(c) ==
  IF c.isRunning \/ c.callback = NoCallback
    THEN c
    ELSE setInterval([c EXCEPT !.isRunning = TRUE,
                               !.since = c.elapsed * SubSeconds])

\* elapsed seconds counted one per tick
actualElapsedCounted(c) == c.elapsed + 1

\* actualElapsed, the whole seconds of wall-clock time since startTime
actualElapsed(c) == c.since \div SubSeconds

\* timeLeft without the clamp at 0
timeLeftUnclamped(c) == c.duration - (c.since \div SubSeconds)

\* timeLeft as the interval closure computes it
timeLeftOf(c) == Max(0, c.duration - actualElapsed(c))

\* the closure handed to setInterval (in start and in resume)
\* the closure without the stop at 0
intervalBodyNeverStops(c) ==
  IF ~c.isRunning
    THEN c
    ELSE [c EXCEPT !.elapsed = c.since \div SubSeconds]

intervalBody(c) ==
  IF ~c.isRunning
    THEN c
    ELSE LET c1 == [c EXCEPT !.elapsed = actualElapsed(c)]
         IN IF timeLeftOf(c) = 0 THEN stop(c1) ELSE c1

\* the closure with an onTick that calls stop() when it is handed timeLeft
intervalBodyStopping(c) ==
  IF ~c.isRunning
    THEN c
    ELSE stop([c EXCEPT !.elapsed = c.since \div SubSeconds])

\* the closure with an onTick that calls start(seconds, onTick2) when it is
\* handed timeLeft; the closure then goes on to its test of timeLeft
intervalBodyRestarting(c, seconds, onTick2) ==
  IF ~c.isRunning
    THEN c
    ELSE LET c1 == start([c EXCEPT !.elapsed = c.since \div SubSeconds],
                         seconds, onTick2)
         IN IF timeLeftOf(c) = 0 THEN stop(c1) ELSE c1

\* the closure calls this.callback(timeLeft)
intervalDelivers(c) == c.isRunning /\ c.callback # NoCallback

(***************************************************************************)
(* Operations of the clock.                                                *)
(***************************************************************************)
ClockStart(seconds) ==
  /\ started < MaxStarts
  /\ Cardinality(DOMAIN stop(clock).timers) < MaxTimers
  /\ clock' = start(clock, seconds, started + 1)
  /\ ticks' = <<seconds>>
  /\ lastCb' = started + 1
  /\ started' = started + 1
  /\ lastClockCall' = "start"
  /\ wasResumed' = FALSE
  /\ replacedLive' = (clock.callback # NoCallback)
  /\ UNCHANGED <<memoVars, spinVars, probeVars, quizVars>>

\* start whose onTick calls stop() on the initial value
ClockStartStopping(seconds) ==
  /\ started < MaxStarts
  /\ Cardinality(DOMAIN stop(clock).timers) < MaxTimers
  /\ clock' = startStoppingInCallback(clock, seconds, started + 1)
  /\ ticks' = <<seconds>>
  /\ lastCb' = started + 1
  /\ started' = started + 1
  /\ lastClockCall' = "start"
  /\ wasResumed' = FALSE
  /\ replacedLive' = (clock.callback # NoCallback)
  /\ UNCHANGED <<memoVars, spinVars, probeVars, quizVars>>

ClockStop ==
  /\ clock' = stop(clock)
  /\ lastClockCall' = "stop"
  /\ UNCHANGED <<ticks, lastCb, started, wasResumed, replacedLive>>
  /\ UNCHANGED <<memoVars, spinVars, probeVars, quizVars>>

ClockPause ==
  /\ clock' = pause(clock)
  /\ lastClockCall' = "pause"
  /\ UNCHANGED <<ticks, lastCb, started, wasResumed, replacedLive>>
  /\ UNCHANGED <<memoVars, spinVars, probeVars, quizVars>>

ClockResume ==
  /\ Cardinality(DOMAIN clock.timers) < MaxTimers
  /\ clock' = resume(clock)
  /\ lastClockCall' = "resume"
  /\ wasResumed' = (wasResumed \/ resume(clock) # clock)
  /\ UNCHANGED <<ticks, lastCb, started, replacedLive>>
  /\ UNCHANGED <<memoVars, spinVars, probeVars, quizVars>>

\* the wall clock advances by 1/SubSeconds of a second, also while the
\* countdown is paused (the model stops counting one second after the longest
\* countdown has run out, and does not count for a stopped clock, whose
\* startTime nothing reads)
ClockAdvance ==
  /\ clock' = [clock EXCEPT
                 !.since = IF /\ clock.callback # NoCallback
                                /\ @ < (MaxDuration + 1) * SubSeconds
                             THEN @ + 1 ELSE @,
                 !.timers = [t \in DOMAIN clock.timers |-> Max(0, clock.timers[t] - 1)]]
  /\ clock' # clock
  /\ UNCHANGED <<ticks, lastCb, started, lastClockCall, wasResumed, replacedLive>>
  /\ UNCHANGED <<memoVars, spinVars, probeVars, quizVars>>

\* a due interval timer runs its closure; the browser schedules its next run
ClockIntervalFire(id) ==
  /\ id \in DOMAIN clock.timers
  /\ clock.timers[id] = 0
  /\ LET c1 == intervalBody(clock)
     IN /\ \E wait \in 1..SubSeconds :
             clock' = IF id \in DOMAIN c1.timers
                        THEN [c1 EXCEPT !.timers[id] = wait] ELSE c1
        /\ ticks' = IF intervalDelivers(clock)
                      THEN Append(ticks, timeLeftOf(clock)) ELSE ticks
        /\ lastCb' = IF intervalDelivers(clock) THEN clock.callback ELSE lastCb
  /\ lastClockCall' = IF intervalDelivers(clock) THEN "tick" ELSE lastClockCall
  /\ UNCHANGED <<started, wasResumed, replacedLive>>
  /\ UNCHANGED <<memoVars, spinVars, probeVars, quizVars>>

\* a due interval timer runs its closure and the onTick it calls stops the
\* clock
ClockIntervalFireStopping(id) ==
  /\ id \in DOMAIN clock.timers
  /\ clock.timers[id] = 0
  /\ intervalDelivers(clock)
  /\ LET c1 == intervalBodyStopping(clock)
     IN \E wait \in 1..SubSeconds :
          clock' = IF id \in DOMAIN c1.timers
                     THEN [c1 EXCEPT !.timers[id] = wait] ELSE c1
  /\ ticks' = Append(ticks, timeLeftOf(clock))
  /\ lastCb' = clock.callback
  /\ lastClockCall' = "stop"
  /\ UNCHANGED <<started, wasResumed, replacedLive>>
  /\ UNCHANGED <<memoVars, spinVars, probeVars, quizVars>>

\* the wall clock advances while no interval timer is due
ClockAdvanceOnTime ==
  /\ \A t \in DOMAIN clock.timers : clock.timers[t] > 0
  /\ clock' = [clock EXCEPT
                 !.since = IF /\ clock.callback # NoCallback
                                /\ @ < (MaxExactDuration + 1) * SubSeconds
                             THEN @ + 1 ELSE @,
                 !.timers = [t \in DOMAIN clock.timers |-> clock.timers[t] - 1]]
  /\ clock' # clock
  /\ UNCHANGED <<ticks, lastCb, started, lastClockCall, wasResumed, replacedLive>>
  /\ UNCHANGED <<memoVars, spinVars, probeVars, quizVars>>

\* a due interval timer runs its closure at once and the browser schedules
\* its next run 1000 ms later
ClockIntervalFireOnTime(id) ==
  /\ id \in DOMAIN clock.timers
  /\ clock.timers[id] = 0
  /\ LET c1 == intervalBody(clock)
     IN /\ clock' = IF id \in DOMAIN c1.timers
                       THEN [c1 EXCEPT !.timers[id] = SubSeconds] ELSE c1
        /\ ticks' = IF intervalDelivers(clock)
                      THEN Append(ticks, timeLeftOf(clock)) ELSE ticks
        /\ lastCb' = IF intervalDelivers(clock) THEN clock.callback ELSE lastCb
  /\ lastClockCall' = IF intervalDelivers(clock) THEN "tick" ELSE lastClockCall
  /\ UNCHANGED <<started, wasResumed, replacedLive>>
  /\ UNCHANGED <<memoVars, spinVars, probeVars, quizVars>>

\* a due interval timer runs its closure and the onTick it calls starts a
\* countdown of seconds
ClockIntervalFireRestarting(id, seconds) ==
  /\ started < MaxStarts
  /\ id \in DOMAIN clock.timers
  /\ clock.timers[id] = 0
  /\ intervalDelivers(clock)
  /\ id = clock.intervalId
  /\ clock' = intervalBodyRestarting(clock, seconds, started + 1)
  /\ ticks' = <<seconds>>
  /\ lastCb' = started + 1
  /\ started' = started + 1
  /\ lastClockCall' = "restart"
  /\ wasResumed' = FALSE
  /\ replacedLive' = TRUE
  /\ UNCHANGED <<memoVars, spinVars, probeVars, quizVars>>

ClockInit ==
  /\ clock = initialClock
  /\ ticks = <<>>
  /\ lastCb = NoCallback
  /\ started = 0
  /\ lastClockCall = "none"
  /\ wasResumed = FALSE
  /\ replacedLive = FALSE

ClockNext ==
  \/ \E seconds \in 0..MaxDuration : ClockStart(seconds)
  \/ \E seconds \in 0..MaxDuration : ClockStartStopping(seconds)
  \/ ClockStop
  \/ ClockPause
  \/ ClockResume
  \/ ClockAdvance
  \/ \E id \in 1..MaxTimers : ClockIntervalFire(id)
  \/ \E id \in 1..MaxTimers : ClockIntervalFireStopping(id)

MemoInit ==
  /\ memo = initialStore
  /\ showWaiting = TRUE
  /\ gameMounted = FALSE
  /\ startTimer = FALSE
  /\ prizeTimer = FALSE
  /\ memoPhase = "unmounted"
  /\ memoTimeLeft = 0
  /\ timeRef = GameTicks
  /\ rafLive = FALSE
  /\ matchTimer = <<>>
  /\ innerCheck = 0
  /\ replayTimer = 0
  /\ lastCall = "none"
  /\ attempts = 0



(***************************************************************************)
(* Roulette: physics.ts.  Angles are whole degrees; the normalised time t  *)
(* and the eased progress are in thousandths.                              *)
(***************************************************************************)
\* the % operator of the program: the result has the sign of the dividend,
\* whatever the sign of the divisor (-0 is 0 here)
Abs(a) == IF a < 0 THEN 0 - a ELSE a

Rem(a, b) == IF a >= 0 THEN a % Abs(b) ELSE 0 - ((0 - a) % Abs(b))

\* the easing with a steeper middle piece
customEasingSteeper(t) ==
  IF t < 200
    THEN (5 * t * t) \div 1000
  ELSE IF t < 700
    THEN 200 + ((t - 200) * 15) \div 10
  ELSE LET adjustedT == ((t - 700) * 1000) \div 300
           q == 1000 - adjustedT
           q2 == (q * q) \div 1000
           q4 == (q2 * q2) \div 1000
           q5 == (q4 * q) \div 1000
       IN 900 + (100 * (1000 - q5)) \div 1000

customEasingFunction(t) ==
  IF t < 200
    THEN (5 * t * t) \div 1000
  ELSE IF t < 700
    THEN 200 + ((t - 200) * 14) \div 10
  ELSE LET adjustedT == ((t - 700) * 1000) \div 300
           q == 1000 - adjustedT
           q2 == (q * q) \div 1000
           q4 == (q2 * q2) \div 1000
           q5 == (q4 * q) \div 1000
       IN 900 + (100 * (1000 - q5)) \div 1000

\* the angles calculateTargetAngle(minRotations, maxRotations) can return
\* (Math.random() over whole turns and a whole number of stops per segment)
calculateTargetAngle(minRotations, maxRotations) ==
  LET step == 360 \div (NumSegments * StopsPerSegment)
  IN {rotations * 360 + finalAngle :
        rotations \in minRotations..(maxRotations - 1),
        finalAngle \in {k * step : k \in 0..(359 \div step)}}

initialSpinState ==
  [isSpinning |-> FALSE, currentAngle |-> 0, velocity |-> 0, targetAngle |-> 0,
   spinDuration |-> 0, elapsedFrames |-> 0, initialAngle |-> NoAngle]

\* updateSpinState that finalizes one call later
updateSpinStateLate(state) ==
  IF ~state.isSpinning
    THEN state
  ELSE IF state.elapsedFrames > state.spinDuration
    THEN LET finalAngle == Rem(state.targetAngle, 360)
         IN [state EXCEPT !.isSpinning = FALSE,
                          !.currentAngle = IF finalAngle < 0 THEN finalAngle + 360
                                                             ELSE finalAngle,
                          !.velocity = 0,
                          !.elapsedFrames = 0,
                          !.initialAngle = NoAngle]
  ELSE LET progress == (state.elapsedFrames * 1000) \div state.spinDuration
           easedProgress == customEasingFunction(progress)
           initialAngle == IF state.initialAngle = NoAngle
                             THEN state.currentAngle ELSE state.initialAngle
           totalRotation == state.targetAngle - initialAngle
           newAngle == initialAngle + (totalRotation * easedProgress) \div 1000
       IN [state EXCEPT !.currentAngle = newAngle,
                        !.velocity = Abs(newAngle - state.currentAngle),
                        !.elapsedFrames = state.elapsedFrames + 1,
                        !.initialAngle = initialAngle]

updateSpinState(state) ==
  IF ~state.isSpinning
    THEN state
  ELSE IF state.elapsedFrames >= state.spinDuration
    THEN LET finalAngle == Rem(state.targetAngle, 360)
         IN [state EXCEPT !.isSpinning = FALSE,
                          !.currentAngle = IF finalAngle < 0 THEN finalAngle + 360
                                                             ELSE finalAngle,
                          !.velocity = 0,
                          !.elapsedFrames = 0,
                          !.initialAngle = NoAngle]
  ELSE LET progress == (state.elapsedFrames * 1000) \div state.spinDuration
           easedProgress == customEasingFunction(progress)
           initialAngle == IF state.initialAngle = NoAngle
                             THEN state.currentAngle ELSE state.initialAngle
           totalRotation == state.targetAngle - initialAngle
           newAngle == initialAngle + (totalRotation * easedProgress) \div 1000
       IN [state EXCEPT !.currentAngle = newAngle,
                        !.velocity = Abs(newAngle - state.currentAngle),
                        !.elapsedFrames = state.elapsedFrames + 1,
                        !.initialAngle = initialAngle]

\* calculateWinningSegment that also turns a one-segment wheel away
calculateWinningSegmentAbove1(finalAngleDeg, numSegments) ==
  IF numSegments <= 1
    THEN -1
    ELSE LET theta0 == Rem(finalAngleDeg, 360)
             theta == IF theta0 < 0 THEN theta0 + 360 ELSE theta0
             relative == Rem(360 - theta, 360)
             idx == Rem((relative * numSegments) \div 360, numSegments)
         IN IF idx < 0 THEN idx + numSegments ELSE idx

calculateWinningSegment(finalAngleDeg, numSegments) ==
  IF numSegments <= 0
    THEN -1
    ELSE LET theta0 == Rem(finalAngleDeg, 360)
             theta == IF theta0 < 0 THEN theta0 + 360 ELSE theta0
             relative == Rem(360 - theta, 360)
             idx == Rem((relative * numSegments) \div 360, numSegments)
         IN IF idx < 0 THEN idx + numSegments ELSE idx

(***************************************************************************)
(* Roulette: gameStore.ts and useRouletteLogic.ts.  A store update         *)
(* re-renders the hook at once, so handleSpinComplete always reads the     *)
(* history of the store; setSpinState called from a frame is rendered      *)
(* later, and until then the requested frame still closes over the         *)
(* rendered spinState.                                                     *)
(***************************************************************************)
initialGameStore == [lastSpinResultIndex |-> NoIndex, recentSpinSegments |-> <<>>]

setLastSpinResultIndex(g, index) == [g EXCEPT !.lastSpinResultIndex = index]

\* addRecentSpinSegment that makes room by removing the newest entry
addRecentSpinSegmentDropNewest(g, segmentIndex) ==
  LET h == g.recentSpinSegments
  IN [g EXCEPT !.recentSpinSegments =
                  IF Len(h) + 1 > maxHistoryLength
                    THEN Append(SubSeq(h, 1, Len(h) - 1), segmentIndex)
                    ELSE Append(h, segmentIndex)]

addRecentSpinSegment(g, segmentIndex) ==
  LET newHistory == Append(g.recentSpinSegments, segmentIndex)
  IN [g EXCEPT !.recentSpinSegments =
                  IF Len(newHistory) > maxHistoryLength
                    THEN Tail(newHistory) ELSE newHistory]

resetCurrentGame(g) ==
  [g EXCEPT !.lastSpinResultIndex = NoIndex, !.recentSpinSegments = <<>>]

\* startSpin without the test of isSpinning
startSpinWhileSpinning(state, targetAngle) ==
  IF segmentsLength = 0
    THEN state
    ELSE [isSpinning |-> TRUE,
          currentAngle |-> state.currentAngle,
          velocity |-> 0,
          targetAngle |-> state.currentAngle + targetAngle,
          spinDuration |-> SpinFrames,
          elapsedFrames |-> 0,
          initialAngle |-> state.currentAngle]

startSpin(state, targetAngle) ==
  IF state.isSpinning \/ segmentsLength = 0
    THEN state
    ELSE [isSpinning |-> TRUE,
          currentAngle |-> state.currentAngle,
          velocity |-> 0,
          targetAngle |-> state.currentAngle + targetAngle,
          spinDuration |-> SpinFrames,
          elapsedFrames |-> 0,
          initialAngle |-> state.currentAngle]

\* isRepeated that is content with a history of one entry
isRepeatedOnce(recentSpinSegments, winningIndex) ==
  /\ Len(recentSpinSegments) >= 1
  /\ \A i \in 1..Len(recentSpinSegments) : recentSpinSegments[i] = winningIndex

\* isRepeated of handleSpinComplete: a history of two or more entries, every
\* one of them the winner
isRepeated(recentSpinSegments, winningIndex) ==
  /\ Len(recentSpinSegments) >= 2
  /\ \A i \in 1..Len(recentSpinSegments) : recentSpinSegments[i] = winningIndex

\* handleSpinComplete that records the physical winner also after a repeat
handleSpinCompleteNoAdjust(g, finalAngle) ==
  LET winningIndex == calculateWinningSegment(finalAngle, segmentsLength)
  IN IF winningIndex >= 0 /\ winningIndex < segmentsLength
       THEN addRecentSpinSegment(setLastSpinResultIndex(g, winningIndex),
                                 winningIndex)
       ELSE g

handleSpinComplete(g, finalAngle) ==
  LET winningIndex == calculateWinningSegment(finalAngle, segmentsLength)
      newIndex == (winningIndex + 1) % segmentsLength
  IN IF winningIndex >= 0 /\ winningIndex < segmentsLength
       THEN IF isRepeated(g.recentSpinSegments, winningIndex)
              THEN addRecentSpinSegment(setLastSpinResultIndex(g, newIndex), newIndex)
              ELSE addRecentSpinSegment(setLastSpinResultIndex(g, winningIndex),
                                        winningIndex)
       ELSE g

\* updateAnimation without the return on a wheel that is not spinning
updateAnimationUnguarded ==
  LET newState == updateSpinState(spinState)
  IN /\ pendingSpin' = <<newState>>
     /\ IF ~newState.isSpinning
          THEN /\ gameStore' = handleSpinComplete(gameStore, newState.currentAngle)
               /\ resolved' = resolved + 1
               /\ physical' = calculateWinningSegment(newState.currentAngle,
                                                      segmentsLength)
               /\ lengthBefore' = Len(gameStore.recentSpinSegments)
               /\ spinCall' = "complete"
          ELSE /\ spinCall' = "frame"
               /\ UNCHANGED <<gameStore, resolved, physical, lengthBefore>>
     /\ UNCHANGED <<spinState, segmentsLength>>

\* updateAnimation as its caller runs it: on the rendered spinState
updateAnimation ==
  IF ~spinState.isSpinning
    THEN /\ spinCall' = "idleFrame"
         /\ UNCHANGED <<spinState, pendingSpin, gameStore, resolved, physical, lengthBefore,
                        segmentsLength>>
    ELSE LET newState == updateSpinState(spinState)
         IN /\ pendingSpin' = <<newState>>
            /\ IF ~newState.isSpinning
                 THEN /\ gameStore' = handleSpinComplete(gameStore,
                                                         newState.currentAngle)
                      /\ resolved' = resolved + 1
                      /\ physical' = calculateWinningSegment(newState.currentAngle,
                                                             segmentsLength)
                      /\ lengthBefore' = Len(gameStore.recentSpinSegments)
                      /\ spinCall' = "complete"
                 ELSE /\ spinCall' = "frame"
                      /\ UNCHANGED <<gameStore, resolved, physical, lengthBefore>>
            /\ UNCHANGED <<spinState, segmentsLength>>

(***************************************************************************)
(* Operations of the roulette.                                             *)
(***************************************************************************)
\* a tap on the wheel: startSpin with the angle Math.random() produced
StartSpin(targetAngle) ==
  /\ spinState' = startSpin(spinState, targetAngle)
  /\ resolved' = IF spinState.isSpinning \/ segmentsLength = 0 THEN resolved ELSE 0
  /\ spinCall' = "startSpin"
  /\ UNCHANGED <<pendingSpin, gameStore, staleFrames, physical, lengthBefore,
                 segmentsLength>>
  /\ UNCHANGED <<memoVars, clockVars, probeVars, quizVars>>

\* RouletteWheel.animate on an animation frame, the last update rendered
Frame ==
  /\ spinState.isSpinning
  /\ pendingSpin = <<>>
  /\ updateAnimation
  /\ UNCHANGED staleFrames
  /\ UNCHANGED <<memoVars, clockVars, probeVars, quizVars>>

\* RouletteWheel.animate on an animation frame that comes before the render
\* of the update the previous frame asked for
StaleFrame ==
  /\ spinState.isSpinning
  /\ pendingSpin # <<>>
  /\ staleFrames < MaxStale
  /\ updateAnimation
  /\ staleFrames' = staleFrames + 1
  /\ UNCHANGED <<memoVars, clockVars, probeVars, quizVars>>

\* updateAnimation, which the hook hands to its caller, called while the
\* wheel is not spinning
IdleFrame ==
  /\ ~spinState.isSpinning
  /\ updateAnimation
  /\ UNCHANGED staleFrames
  /\ UNCHANGED <<memoVars, clockVars, probeVars, quizVars>>

\* page.tsx: the questions file is loaded into the store; the hook builds
\* the segments of the wheel from it
LoadQuestions ==
  /\ segmentsLength = 0
  /\ segmentsLength' = NumSegments
  /\ spinCall' = "loadQuestions"
  /\ UNCHANGED <<spinState, pendingSpin, gameStore, staleFrames, resolved, physical,
                 lengthBefore>>
  /\ UNCHANGED <<memoVars, clockVars, probeVars, quizVars>>

\* the questions of the session are loaded and the wheel built from them has
\* numSegments segments
LoadWheel(numSegments) ==
  /\ segmentsLength = 0
  /\ segmentsLength' = numSegments
  /\ spinCall' = "loadQuestions"
  /\ UNCHANGED <<spinState, pendingSpin, gameStore, staleFrames, resolved, physical,
                 lengthBefore>>
  /\ UNCHANGED <<memoVars, clockVars, probeVars, quizVars>>

\* the angles a spin of the loaded wheel may stop on
StopAngles ==
  LET step == 360 \div (segmentsLength * StopsPerSegment)
  IN {k * step : k \in 0..(359 \div step)}

\* the last frame of a spin that stops on finalAngle: handleSpinComplete
ResolveSpin(finalAngle) ==
  /\ segmentsLength > 0
  /\ ~spinState.isSpinning
  /\ gameStore' = handleSpinComplete(gameStore, finalAngle)
  /\ physical' = calculateWinningSegment(finalAngle, segmentsLength)
  /\ lengthBefore' = Len(gameStore.recentSpinSegments)
  /\ spinCall' = "complete"
  /\ UNCHANGED <<spinState, pendingSpin, staleFrames, resolved, segmentsLength>>
  /\ UNCHANGED <<memoVars, clockVars, probeVars, quizVars>>

\* the render of the pending setSpinState; the effect cancels the requested
\* frame and requests one for the new closure while isSpinning
Render ==
  /\ pendingSpin # <<>>
  /\ spinState' = pendingSpin[1]
  /\ pendingSpin' = <<>>
  /\ staleFrames' = 0
  /\ spinCall' = "render"
  /\ UNCHANGED <<gameStore, resolved, physical, lengthBefore, segmentsLength>>
  /\ UNCHANGED <<memoVars, clockVars, probeVars, quizVars>>

\* PrizeModal.handleReturnToRoulette
ReturnToRoulette ==
  /\ ~spinState.isSpinning
  /\ gameStore.lastSpinResultIndex # NoIndex
  /\ gameStore' = setLastSpinResultIndex(gameStore, NoIndex)
  /\ spinCall' = "returnToRoulette"
  /\ UNCHANGED <<spinState, pendingSpin, staleFrames, resolved, physical, lengthBefore,
                 segmentsLength>>
  /\ UNCHANGED <<memoVars, clockVars, probeVars, quizVars>>

\* PrizeModal.handleReturnToStart
ReturnToStart ==
  /\ ~spinState.isSpinning
  /\ gameStore.lastSpinResultIndex # NoIndex
  /\ gameStore' = resetCurrentGame(gameStore)
  /\ spinCall' = "returnToStart"
  /\ UNCHANGED <<spinState, pendingSpin, staleFrames, resolved, physical, lengthBefore,
                 segmentsLength>>
  /\ UNCHANGED <<memoVars, clockVars, probeVars, quizVars>>

SpinInit ==
  /\ spinState = initialSpinState
  /\ pendingSpin = <<>>
  /\ gameStore = initialGameStore
  /\ staleFrames = 0
  /\ resolved = 0
  /\ physical = NoIndex
  /\ lengthBefore = 0
  /\ spinCall = "none"
  /\ segmentsLength = 0

(***************************************************************************)
(* checkGameEnd called directly on a store in the playing phase.           *)
(***************************************************************************)
probeStore(matchesFound, movesUsed, bestScore) ==
  [initialStore EXCEPT !.gameState = "playing",
                       !.stats.matchesFound = matchesFound,
                       !.stats.movesUsed = movesUsed,
                       !.stats.bestScore = bestScore]

ProbeArrange(matchesFound, movesUsed, timeRemaining, bestScore) ==
  /\ probe' = probeStore(matchesFound, movesUsed, bestScore)
  /\ probeTime' = timeRemaining
  /\ probeDone' = FALSE
  /\ UNCHANGED <<wheelProbe, buildProbe, flipProbe, easeProbe>>
  /\ UNCHANGED <<memoVars, clockVars, spinVars, quizVars>>

ProbeCheckGameEnd ==
  /\ ~probeDone
  /\ probe.gameState = "playing"
  /\ probe' = checkGameEnd(probe, probeTime)
  /\ probeDone' = TRUE
  /\ UNCHANGED <<probeTime, wheelProbe, buildProbe, flipProbe, easeProbe>>
  /\ UNCHANGED <<memoVars, clockVars, spinVars, quizVars>>

ProbeInit ==
  /\ probe = initialStore
  /\ probeTime = 0
  /\ probeDone = FALSE
  /\ wheelProbe = <<>>
  /\ buildProbe = <<>>
  /\ flipProbe = <<>>
  /\ easeProbe = <<>>

(***************************************************************************)
(* customEasingFunction called directly on a thousandth of the normalised  *)
(* time and on the next thousandth.                                        *)
(***************************************************************************)
ProbeEasing(t) ==
  /\ easeProbe = <<>>
  /\ easeProbe' = [t |-> t,
                   eased |-> customEasingFunction(t),
                   next |-> customEasingFunction(IF t < 1000 THEN t + 1 ELSE t)]
  /\ UNCHANGED <<probe, probeTime, probeDone, wheelProbe, buildProbe, flipProbe>>
  /\ UNCHANGED <<memoVars, clockVars, spinVars, quizVars>>

\* forget the call
ProbeEasingReset ==
  /\ easeProbe # <<>>
  /\ easeProbe' = <<>>
  /\ UNCHANGED <<probe, probeTime, probeDone, wheelProbe, buildProbe, flipProbe>>
  /\ UNCHANGED <<memoVars, clockVars, spinVars, quizVars>>

(***************************************************************************)
(* calculateWinningSegment called directly, in both versions of            *)
(* physics.ts, on whole degrees.                                           *)
(***************************************************************************)
\* the earlier version: Math.round(normalizedAngle / segmentAngle) % numSegments
calculateWinningSegmentRounded(finalAngle, numSegments) ==
  IF numSegments = 0
    THEN -1
    ELSE LET angle0 == Rem(finalAngle, 360)
             normalizedAngle == IF angle0 < 0 THEN angle0 + 360 ELSE angle0
         IN Rem((2 * normalizedAngle * numSegments + 360) \div 720, numSegments)

ProbeWinningSegment(finalAngleDeg, numSegments) ==
  /\ wheelProbe = <<>>
  /\ wheelProbe' = [finalAngleDeg |-> finalAngleDeg,
                    numSegments |-> numSegments,
                    index |-> calculateWinningSegment(finalAngleDeg, numSegments),
                    rounded |-> calculateWinningSegmentRounded(finalAngleDeg,
                                                               numSegments)]
  /\ UNCHANGED <<probe, probeTime, probeDone, buildProbe, flipProbe, easeProbe>>
  /\ UNCHANGED <<memoVars, clockVars, spinVars, quizVars>>

\* forget the call
ProbeWheelReset ==
  /\ wheelProbe # <<>>
  /\ wheelProbe' = <<>>
  /\ UNCHANGED <<probe, probeTime, probeDone, buildProbe, flipProbe, easeProbe>>
  /\ UNCHANGED <<memoVars, clockVars, spinVars, quizVars>>

(***************************************************************************)
(* The wheel's segments: utils/roulette/colors.ts and segments.ts.         *)
(* A question is [id, category]; a segment is [text, questions] and, once  *)
(* coloured, [text, color, questions].  Arrays are sequences, so the       *)
(* program's index i is position i + 1 here.                               *)
(***************************************************************************)
\* the categories questions are drawn from: the two that share the text
\* "Dar Salud", a third with that prefix, three with a colour of their own
\* and one without
Categories ==
  {"Dar Salud", "Dar Salud II", "Dar Salud III", "Prevencion",
   "Criterios clinicos", "Cuidado interdisciplinario", "Libre"}

ROULETTE_COLORS ==
  [AZUL_INTENSO |-> "#192A6E", VERDE_SALUD |-> "#5ACCC1",
   CELESTE_MEDIO |-> "#40C0EF", AMARILLO_DS |-> "#F2BD35",
   ROSADO_LILA |-> "#D5A7CD"]

AVAILABLE_COLORS ==
  <<ROULETTE_COLORS.VERDE_SALUD, ROULETTE_COLORS.CELESTE_MEDIO,
    ROULETTE_COLORS.AMARILLO_DS, ROULETTE_COLORS.ROSADO_LILA>>

CATEGORY_COLOR_MAP ==
  [category \in {"Dar Salud", "Prevencion", "Criterios clinicos",
                 "Cuidado interdisciplinario", "Etica y derechos"} |->
     CASE category = "Dar Salud" -> ROULETTE_COLORS.AZUL_INTENSO
       [] category = "Prevencion" -> ROULETTE_COLORS.VERDE_SALUD
       [] category = "Criterios clinicos" -> ROULETTE_COLORS.CELESTE_MEDIO
       [] category = "Cuidado interdisciplinario" -> ROULETTE_COLORS.AMARILLO_DS
       [] OTHER -> ROULETTE_COLORS.ROSADO_LILA]

normalizeCategory(category) ==
  IF category = "Dar Salud II" THEN "Dar Salud" ELSE category

\* undefined is NoColor
getCategoryColor(category) ==
  LET normalized == normalizeCategory(category)
  IN IF normalized \in DOMAIN CATEGORY_COLOR_MAP
       THEN CATEGORY_COLOR_MAP[normalized]
       ELSE NoColor

\* category.startsWith("Dar Salud")
startsWithDarSalud(category) ==
  category \in {"Dar Salud", "Dar Salud II", "Dar Salud III"}

getNextFixedColor(currentIndex, segments) ==
  IF currentIndex + 2 > Len(segments)
    THEN NoColor
    ELSE getCategoryColor(segments[currentIndex + 2].text)

selectOptimalColor(currentIndex, allSegments, usedColors, availableColors) ==
  LET prevColor == IF currentIndex > 0 THEN usedColors[currentIndex] ELSE NoColor
      nextColor == getNextFixedColor(currentIndex, allSegments)
      notAdjacent(color) == color # prevColor /\ color # nextColor
      notPrevious(color) == color # prevColor
      strict == SelectSeq(availableColors, notAdjacent)
      relaxed == SelectSeq(availableColors, notPrevious)
      candidateColors == IF Len(strict) > 0 THEN strict
                         ELSE IF Len(relaxed) > 0 THEN relaxed
                         ELSE availableColors
      colorIndex == currentIndex % Len(candidateColors)
  IN candidateColors[colorIndex + 1]

\* the forEach of assignColorsToSegments from position index on
RECURSIVE assignColorsFrom(_, _, _, _)
assignColorsFrom(segments, index, result, usedColors) ==
  IF index >= Len(segments)
    THEN result
    ELSE LET segment == segments[index + 1]
             categoryColor == getCategoryColor(segment.text)
             color == IF categoryColor # NoColor
                        THEN categoryColor
                        ELSE selectOptimalColor(index, segments, usedColors,
                                                AVAILABLE_COLORS)
         IN assignColorsFrom(segments, index + 1,
                             Append(result, [text |-> segment.text,
                                             color |-> color,
                                             questions |-> segment.questions]),
                             Append(usedColors, color))

assignColorsToSegments(segments) ==
  IF Len(segments) = 0 THEN <<>> ELSE assignColorsFrom(segments, 0, <<>>, <<>>)

\* grouped[category] = [question]: every group keeps only its last question
groupQuestionsKeepingLast(questions) ==
  [category \in {questions[i].category : i \in DOMAIN questions} |->
     LET inCategory(question) == question.category = category
         group == SelectSeq(questions, inCategory)
     IN <<group[Len(group)]>>]

groupQuestionsByCategory(questions) ==
  [category \in {questions[i].category : i \in DOMAIN questions} |->
     LET inCategory(question) == question.category = category
     IN SelectSeq(questions, inCategory)]

\* Object.keys(grouped): the categories in the order they were first met
RECURSIVE ObjectKeys(_)
ObjectKeys(questions) ==
  IF Len(questions) = 0
    THEN <<>>
    ELSE LET first == questions[1].category
             other(question) == question.category # first
         IN <<first>> \o ObjectKeys(SelectSeq(Tail(questions), other))

\* array.splice(index, 0, item): an index past the end is the end
splice(array, index, item) ==
  LET at == IF index > Len(array) THEN Len(array) ELSE index
  IN SubSeq(array, 1, at) \o <<item>> \o SubSeq(array, at + 1, Len(array))

\* the second segment inserted at secondPosition - 1, next to the first
\* whenever the two thirds fall one apart
insertDarSaludSideBySide(segments, grouped, darSaludCategories) ==
  LET totalSegments == Len(segments) + Len(darSaludCategories)
      segmentOf(i) == [text |-> normalizeCategory(darSaludCategories[i]),
                       questions |-> grouped[darSaludCategories[i]]]
  IN IF Len(darSaludCategories) >= 2
       THEN LET firstPosition == totalSegments \div 3
                secondPosition == (totalSegments * 2) \div 3
                two == splice(splice(segments, firstPosition, segmentOf(1)),
                              secondPosition - 1, segmentOf(2))
            IN two \o [i \in 1..(Len(darSaludCategories) - 2) |-> segmentOf(i + 2)]
       ELSE IF Len(darSaludCategories) = 1
         THEN splice(segments, totalSegments \div 2, segmentOf(1))
         ELSE segments

insertDarSaludSegments(segments, grouped, darSaludCategories) ==
  LET totalSegments == Len(segments) + Len(darSaludCategories)
      segmentOf(i) == [text |-> normalizeCategory(darSaludCategories[i]),
                       questions |-> grouped[darSaludCategories[i]]]
  IN IF Len(darSaludCategories) >= 2
       THEN LET firstPosition == totalSegments \div 3
                secondPosition == (totalSegments * 2) \div 3
                two == splice(splice(segments, firstPosition, segmentOf(1)),
                              secondPosition + 1, segmentOf(2))
            IN two \o [i \in 1..(Len(darSaludCategories) - 2) |-> segmentOf(i + 2)]
       ELSE IF Len(darSaludCategories) = 1
         THEN splice(segments, totalSegments \div 2, segmentOf(1))
         ELSE segments

\* the segments before colours are assigned
uncolouredSegments(questions) ==
  LET grouped == groupQuestionsByCategory(questions)
      categories == ObjectKeys(questions)
      regular(category) == ~startsWithDarSalud(category)
      darSaludCategories == SelectSeq(categories, startsWithDarSalud)
      regularCategories == SelectSeq(categories, regular)
      segments == [i \in 1..Len(regularCategories) |->
                     [text |-> regularCategories[i],
                      questions |-> grouped[regularCategories[i]]]]
  IN IF Len(darSaludCategories) > 0
       THEN insertDarSaludSegments(segments, grouped, darSaludCategories)
       ELSE segments

createRouletteSegments(questions) ==
  IF Len(questions) = 0
    THEN <<>>
    ELSE assignColorsToSegments(uncolouredSegments(questions))

\* the questions of a game: question i has category categories[i]
questionsOf(categories) ==
  [i \in DOMAIN categories |-> [id |-> i, category |-> categories[i]]]

ProbeBuild(categories) ==
  /\ buildProbe = <<>>
  /\ buildProbe' = [questions |-> questionsOf(categories),
                    segments |-> createRouletteSegments(questionsOf(categories))]
  /\ UNCHANGED <<probe, probeTime, probeDone, wheelProbe, flipProbe, easeProbe>>
  /\ UNCHANGED <<memoVars, clockVars, spinVars, quizVars>>

\* forget the call
ProbeBuildReset ==
  /\ buildProbe # <<>>
  /\ buildProbe' = <<>>
  /\ UNCHANGED <<probe, probeTime, probeDone, wheelProbe, flipProbe, easeProbe>>
  /\ UNCHANGED <<memoVars, clockVars, spinVars, quizVars>>

(***************************************************************************)
(* The operations of memoStore called directly on a store in play: the     *)
(* cards are dealt and hidden as the phases do it, flipCard is called      *)
(* with any id, and a selected pair of cards is resolved as PlayingPhase   *)
(* resolves it, the end of the game checked with time left.                *)
(***************************************************************************)
ProbeDeal(deck) ==
  /\ flipProbe = <<>>
  /\ flipProbe' =
       [store |-> startPlaying(startMemorizing(
                    startShuffling(initGame(initialStore, deck), deck))),
        call |-> "deal", cardId |-> NoCard]
  /\ UNCHANGED <<probe, probeTime, probeDone, wheelProbe, buildProbe, easeProbe>>
  /\ UNCHANGED <<memoVars, clockVars, spinVars, quizVars>>

ProbeFlipCard(cardId) ==
  /\ flipProbe # <<>>
  /\ flipProbe' = [store |-> flipCard(flipProbe.store, cardId),
                   call |-> "flipCard", cardId |-> cardId]
  /\ UNCHANGED <<probe, probeTime, probeDone, wheelProbe, buildProbe, easeProbe>>
  /\ UNCHANGED <<memoVars, clockVars, spinVars, quizVars>>

ProbeResolvePair ==
  /\ flipProbe # <<>>
  /\ flipProbe.store.gameState = "playing"
  /\ Len(flipProbe.store.selectedCards) = 2
  /\ \A i \in 1..2 : flipProbe.store.selectedCards[i] \in CardIds
  /\ LET first == flipProbe.store.selectedCards[1]
         second == flipProbe.store.selectedCards[2]
         resolved2 == IF checkMatch(first, second)
                        THEN handleMatchCheck(flipProbe.store, first, second)
                        ELSE handleNoMatch(flipProbe.store)
     IN flipProbe' = [store |-> checkGameEnd(resolved2, 1),
                      call |-> "resolve", cardId |-> NoCard]
  /\ UNCHANGED <<probe, probeTime, probeDone, wheelProbe, buildProbe, easeProbe>>
  /\ UNCHANGED <<memoVars, clockVars, spinVars, quizVars>>

\* forget the store
ProbeFlipReset ==
  /\ flipProbe # <<>>
  /\ flipProbe' = <<>>
  /\ UNCHANGED <<probe, probeTime, probeDone, wheelProbe, buildProbe, easeProbe>>
  /\ UNCHANGED <<memoVars, clockVars, spinVars, quizVars>>

(***************************************************************************)
(* Specifications.                                                         *)
(***************************************************************************)

(***************************************************************************)
(* QuestionDisplay: useQuestionLogic and useTimer.  The options of a       *)
(* question are 1..NumOptions and option CorrectOption is the correct one.  *)
(***************************************************************************)
NoOption == 0
CorrectOption == 1
NoFeedback == <<>>

\* resetQuestion
initialQuestion ==
  [selectedAnswer |-> NoOption, isAnswered |-> FALSE, answerState |-> "idle",
   isTransitioning |-> FALSE, hasTimeUpExecuted |-> FALSE]

\* useTimer with autoStart
initialTimer ==
  [seconds |-> QuestionSeconds, isRunning |-> TRUE, hasTimeUpFired |-> FALSE]

initialQuizStore == [gameState |-> "question", prizeFeedback |-> NoFeedback]

setPrizeFeedback(g, feedback) == [g EXCEPT !.prizeFeedback = feedback]

setGameState(g, newState) == [g EXCEPT !.gameState = newState]

QuizInit ==
  /\ questionLogic = initialQuestion
  /\ timer = initialTimer
  /\ reveal = <<>>
  /\ quizStore = initialQuizStore
  /\ prizeTimers = 0
  /\ answered = <<>>
  /\ feedbackWrites = 0
  /\ round = 1

\* handleTimeUp, as the closure of the current render
handleTimeUp ==
  IF questionLogic.isAnswered \/ questionLogic.hasTimeUpExecuted
    THEN UNCHANGED <<questionLogic, quizStore, answered, feedbackWrites, prizeTimers>>
    ELSE /\ questionLogic' = [questionLogic EXCEPT !.hasTimeUpExecuted = TRUE,
                                         !.isAnswered = TRUE]
         /\ quizStore' = setPrizeFeedback(quizStore,
                           [answeredCorrectly |-> FALSE, timeUp |-> TRUE])
         /\ answered' = Append(answered,
                           [correct |-> FALSE, option |-> NoOption, timeUp |-> TRUE])
         /\ feedbackWrites' = feedbackWrites + 1
         /\ prizeTimers' = prizeTimers + 1

\* useTimer: the 1000 ms timeout of the main effect, and the effect that
\* runs on the new value of seconds
TimerTick ==
  /\ quizStore.gameState = "question"
  /\ timer.isRunning /\ timer.seconds > 0
  /\ LET seconds == Max(0, timer.seconds - 1)
     IN IF seconds <= 0 /\ ~timer.hasTimeUpFired
          THEN /\ timer' = [seconds |-> seconds, isRunning |-> FALSE,
                            hasTimeUpFired |-> TRUE]
               /\ handleTimeUp
          ELSE /\ timer' = [timer EXCEPT !.seconds = seconds]
               /\ UNCHANGED <<questionLogic, quizStore, answered, feedbackWrites,
                              prizeTimers>>
  /\ UNCHANGED <<reveal, round>>
  /\ UNCHANGED <<memoVars, clockVars, spinVars, probeVars>>

\* handleAnswer up to its await: the validation and the selection
SelectOption(option) ==
  /\ quizStore.gameState = "question"
  /\ IF questionLogic.isAnswered \/ questionLogic.hasTimeUpExecuted \/ questionLogic.isTransitioning
       THEN UNCHANGED <<questionLogic, reveal>>
       ELSE /\ questionLogic' = [questionLogic EXCEPT !.isTransitioning = TRUE,
                                            !.selectedAnswer = option,
                                            !.answerState = "selected"]
            /\ reveal' = <<option>>
  /\ UNCHANGED <<timer, quizStore, prizeTimers, answered, feedbackWrites, round>>
  /\ UNCHANGED <<memoVars, clockVars, spinVars, probeVars>>

\* handleAnswer after the 400 ms delay
RevealAnswer ==
  /\ reveal # <<>>
  /\ LET option == reveal[1]
         isCorrect == option = CorrectOption
     IN /\ questionLogic' = [questionLogic EXCEPT !.hasTimeUpExecuted = TRUE,
                                        !.isAnswered = TRUE,
                                        !.answerState = "revealed"]
        /\ quizStore' = setPrizeFeedback(quizStore,
                          [answeredCorrectly |-> isCorrect, timeUp |-> FALSE])
        /\ answered' = Append(answered,
                          [correct |-> isCorrect, option |-> option, timeUp |-> FALSE])
  /\ feedbackWrites' = feedbackWrites + 1
  /\ prizeTimers' = prizeTimers + 1
  /\ reveal' = <<>>
  /\ UNCHANGED <<timer, round>>
  /\ UNCHANGED <<memoVars, clockVars, spinVars, probeVars>>

\* the 2000 ms and 2500 ms timers to the prize screen; a 400 ms delay that
\* is still pending began before them and ends first
QuizPrizeTimerFire ==
  /\ prizeTimers > 0
  /\ reveal = <<>>
  /\ quizStore' = setGameState(quizStore, "prize")
  /\ prizeTimers' = prizeTimers - 1
  /\ UNCHANGED <<questionLogic, timer, reveal, answered, feedbackWrites, round>>
  /\ UNCHANGED <<memoVars, clockVars, spinVars, probeVars>>

\* the next spin ends on the next question: QuestionDisplay mounts anew
NextQuestion ==
  /\ round < MaxRounds
  /\ quizStore.gameState = "prize"
  /\ prizeTimers = 0
  /\ questionLogic' = initialQuestion
  /\ timer' = initialTimer
  /\ quizStore' = initialQuizStore
  /\ answered' = <<>>
  /\ feedbackWrites' = 0
  /\ round' = round + 1
  /\ UNCHANGED <<reveal, prizeTimers>>
  /\ UNCHANGED <<memoVars, clockVars, spinVars, probeVars>>

QuizNext ==
  \/ TimerTick
  \/ \E option \in 1..NumOptions : SelectOption(option)
  \/ RevealAnswer
  \/ QuizPrizeTimerFire
  \/ NextQuestion

Init == MemoInit /\ ClockInit /\ SpinInit /\ ProbeInit /\ QuizInit

MemoNext ==
  \/ TapWaiting
  \/ MountGame
  \/ StartTimerFire
  \/ ShuffleTimerFire
  \/ MemorizeTick
  \/ HideTimerFire
  \/ PlayTick
  \/ \E cardId \in CardIds \cup {NoCard} : FlipCard(cardId)
  \/ MatchTimerFire
  \/ InnerCheckFire
  \/ PrizeTimerFire
  \/ DefeatPlayAgain
  \/ ReplayTimerFire
  \/ DefeatBackToStart
  \/ PrizePlayAgain
  \/ PrizeBackToStart

\* a frame runs only after the previous frame's update has been rendered
SpinNext ==
  \/ \E targetAngle \in calculateTargetAngle(MinRotations, MaxRotations) :
        StartSpin(targetAngle)
  \/ LoadQuestions
  \/ Frame
  \/ IdleFrame
  \/ Render
  \/ ReturnToRoulette
  \/ ReturnToStart

\* a frame may also run before that render
SpinStaleNext ==
  \/ \E targetAngle \in calculateTargetAngle(MinRotations, MaxRotations) :
        StartSpin(targetAngle)
  \/ LoadQuestions
  \/ Frame
  \/ IdleFrame
  \/ StaleFrame
  \/ Render
  \/ ReturnToRoulette
  \/ ReturnToStart

ProbeNext ==
  \/ \E matchesFound \in 0..TotalPairs, movesUsed \in 0..(maxMoves + 1),
        timeRemaining \in 0..GameTicks, bestScore \in {NoScore, 1000} :
        ProbeArrange(matchesFound, movesUsed, timeRemaining, bestScore)
  \/ ProbeCheckGameEnd

\* the memory game
Spec == Init /\ [][MemoNext]_vars

\* the trivia question
QuizSpec == Init /\ [][QuizNext]_vars

\* the memory game when the game called for is mounted and every timer set
\* and every requested frame does fire; the taps of the player are under no
\* such condition
MemoLiveSpec ==
  /\ Spec
  /\ WF_vars(MountGame)
  /\ WF_vars(StartTimerFire)
  /\ WF_vars(ShuffleTimerFire)
  /\ WF_vars(MemorizeTick)
  /\ WF_vars(HideTimerFire)
  /\ WF_vars(PlayTick)
  /\ WF_vars(MatchTimerFire)
  /\ WF_vars(InnerCheckFire)
  /\ WF_vars(PrizeTimerFire)
  /\ WF_vars(ReplayTimerFire)

\* the clock service
ClockSpec == Init /\ [][ClockNext]_vars

ClockReentrantNext ==
  \/ ClockNext
  \/ \E id \in 1..MaxTimers, seconds \in 0..MaxDuration :
        ClockIntervalFireRestarting(id, seconds)

\* the clock service with callbacks that may start a new countdown
ClockReentrantSpec == Init /\ [][ClockReentrantNext]_vars

ClockExactNext ==
  \/ \E seconds \in 0..MaxExactDuration : ClockStart(seconds)
  \/ ClockAdvanceOnTime
  \/ \E id \in 1..MaxTimers : ClockIntervalFireOnTime(id)

\* countdowns that are started and left alone, with an interval timer that
\* fires on every 1000 ms boundary
ClockExactSpec == Init /\ [][ClockExactNext]_vars

\* the clock service when due timers do fire and the wall clock does advance
ClockLiveSpec ==
  /\ ClockSpec
  /\ WF_vars(ClockAdvance)
  /\ WF_vars(\E id \in 1..MaxTimers : ClockIntervalFire(id))

\* the roulette, every update rendered before the next frame
SpinSpec == Init /\ [][SpinNext]_vars

\* the roulette, frames and renders in any order
SpinStaleSpec == Init /\ [][SpinStaleNext]_vars

\* the roulette when the browser keeps running the requested frames and React
\* keeps rendering the requested updates
SpinLiveSpec ==
  /\ SpinStaleSpec
  /\ WF_vars(Frame)
  /\ WF_vars(Render)

\* checkGameEnd on every store of the playing phase
ProbeSpec == Init /\ [][ProbeNext]_vars

ResolveNext ==
  \/ /\ segmentsLength = 0
     /\ \E numSegments \in 1..MaxProbeSegments : LoadWheel(numSegments)
  \/ /\ segmentsLength > 0
     /\ \E finalAngle \in StopAngles : ResolveSpin(finalAngle)
  \/ ReturnToRoulette
  \/ ReturnToStart

\* spins resolved one after the other on wheels of 1 to MaxProbeSegments
\* segments
ResolveSpec == Init /\ [][ResolveNext]_vars

WheelProbeNext ==
  \/ \E finalAngleDeg \in (0 - MaxProbeAngle)..MaxProbeAngle,
        numSegments \in (0 - MaxProbeSegments)..MaxProbeSegments :
        ProbeWinningSegment(finalAngleDeg, numSegments)
  \/ ProbeWheelReset

\* calculateWinningSegment on every angle and wheel size of the bounds
WheelProbeSpec == Init /\ [][WheelProbeNext]_vars

BuildProbeNext ==
  \/ /\ buildProbe = <<>>
     /\ \E n \in 0..MaxQuestions : \E categories \in [1..n -> Categories] :
          ProbeBuild(categories)
  \/ ProbeBuildReset

\* createRouletteSegments on every list of at most MaxQuestions questions
BuildProbeSpec == Init /\ [][BuildProbeNext]_vars

FlipProbeNext ==
  \/ \E deck \in Decks : ProbeDeal(deck)
  \/ \E cardId \in CardIds \cup {NoCard, PrototypeKey} : ProbeFlipCard(cardId)
  \/ ProbeResolvePair
  \/ ProbeFlipReset

\* flipCard on every store of a game in play and every id
FlipProbeSpec == Init /\ [][FlipProbeNext]_vars

EaseProbeNext ==
  \/ /\ easeProbe = <<>>
     /\ \E t \in 0..1000 : ProbeEasing(t)
  \/ ProbeEasingReset

\* customEasingFunction on every thousandth of [0, 1]
EaseProbeSpec == Init /\ [][EaseProbeNext]_vars

(***************************************************************************)
(* Properties.                                                             *)
(***************************************************************************)
\* C1: a flipCard call made while the phase is not playing changes nothing
\* of the store (cards, selection, isProcessing, movesUsed, matchesFound,
\* phase) and schedules no reveal timer.
C1_FlipOutsidePlayingChangesNothing ==
  [][(lastCall' = "flipCard" /\ memo.gameState # "playing")
        => (memo' = memo /\ matchTimer' = matchTimer)]_vars

\* flipCard has just been called during the shuffle, where every card is
\* face down
C1_Witness ==
  /\ lastCall = "flipCard"
  /\ memo.gameState = "shuffling"
  /\ \A c \in CardIds : ~memo.cardsById[c].isFlipped

\* C2: movesUsed equals the number of two-card attempts completed in the
\* current run (an attempt is completed when its second card is flipped);
\* nothing else changes it.
C2_MovesUsedCountsAttempts == memo.stats.movesUsed = attempts

\* two attempts have been completed and the second has been resolved as
\* a mismatch
C2_Witness ==
  /\ attempts = 2
  /\ lastCall = "matchTimer"
  /\ memo.stats.matchesFound = 0
  /\ memo.gameState = "playing"

\* C3: when the two most recently recorded winners both equal k and the
\* spin's physical winner is k, the recorded winner is (k + 1) mod
\* NumSegments, whatever the older history entry is.
C3_NeverThreeInARow ==
  [][LET h == gameStore.recentSpinSegments
     IN (/\ spinCall' = "complete"
         /\ Len(h) >= 2
         /\ h[Len(h)] = physical'
         /\ h[Len(h) - 1] = physical')
        => gameStore'.lastSpinResultIndex = (physical' + 1) % NumSegments]_vars

\* C4: within one run of the clock the delivered values lie in 0..duration
\* and never increase; a run that ended by itself ended on 0 and nothing is
\* delivered after it; a running countdown that is neither stopped, paused
\* nor replaced reaches that end.
C4_TicksDescendToZero ==
  /\ [](/\ \A i \in 1..Len(ticks) :
             /\ ticks[i] \in 0..clock.duration
             /\ i > 1 => ticks[i] <= ticks[i - 1]
        /\ (lastClockCall = "tick" /\ clock.callback = NoCallback)
              => ticks[Len(ticks)] = 0)
  /\ [][(clock.callback = NoCallback /\ lastClockCall' # "start")
           => ticks' = ticks]_vars
  /\ \A n \in 1..MaxStarts :
        (started = n /\ clock.isRunning) ~>
           \/ started # n
           \/ lastClockCall \in {"stop", "pause"}
           \/ clock.callback = NoCallback /\ ticks[Len(ticks)] = 0

\* a countdown that was paused and resumed has ended by itself after at
\* least three deliveries
C4_Witness ==
  /\ wasResumed
  /\ lastClockCall = "tick"
  /\ clock.callback = NoCallback
  /\ Len(ticks) >= 3
  /\ ticks[Len(ticks)] = 0

\* C5: a countdown tick or a delayed match check is delivered only in the
\* phase that scheduled it: the ticks and checks of PlayingPhase while the
\* phase is playing, those of MemorizationPhase while it is shuffling or
\* memorizing.
C5_NoDeliveryAfterPhaseLeft ==
  [][/\ lastCall' \in {"playTick", "matchTimer", "innerCheck"}
          => memo.gameState = "playing"
     /\ lastCall' \in {"shuffleTimer", "memorizeTick", "hideTimer"}
          => memo.gameState \in {"shuffling", "memorizing"}]_vars

C7_ZeroDeliveredOnce ==
  /\ Cardinality({i \in 1..Len(ticks) : ticks[i] = 0}) <= 1
  /\ (/\ Len(ticks) > 0
      /\ ticks[Len(ticks)] = 0
      /\ lastClockCall \in {"start", "tick"})
        => (~clock.isRunning /\ DOMAIN clock.timers = {})

\* C8: a spin resolves exactly one winner: one handleSpinComplete per spin,
\* also when a frame runs again on a spinState whose update is not rendered.
C8_OneWinnerPerSpin ==
  /\ resolved <= 1
  /\ (spinCall = "render" /\ ~spinState.isSpinning) => resolved = 1

\* C9: checkGameEnd decides win if matchesFound >= requiredPairs, else loss
\* if movesUsed >= maxMoves, else loss if timeRemaining <= 0, else leaves
\* the phase at playing.
C9_EndOfGamePriority ==
  probeDone =>
    probe.gameState =
      IF probe.stats.matchesFound >= requiredPairs THEN "success"
      ELSE IF probe.stats.movesUsed >= maxMoves THEN "failed"
      ELSE IF probeTime <= 0 THEN "failed"
      ELSE "playing"

\* all three conditions held at once and the check decided a win
C9_Witness ==
  /\ probeDone
  /\ probe.stats.matchesFound >= requiredPairs
  /\ probe.stats.movesUsed >= maxMoves
  /\ probeTime = 0
  /\ probe.gameState = "success"

\* C10: the phase changes only along the edges of the state machine.
C10_PhaseEdges ==
  [][memo'.gameState # memo.gameState =>
       <<memo.gameState, memo'.gameState>> \in
          {<<"waiting", "shuffling">>, <<"shuffling", "memorizing">>,
           <<"memorizing", "playing">>, <<"playing", "success">>,
           <<"playing", "failed">>, <<"success", "prize">>,
           <<"failed", "shuffling">>, <<"prize", "shuffling">>,
           <<"failed", "waiting">>, <<"prize", "waiting">>}]_vars

\* C11: on a win the score is max(0, 1000 - 100*(movesUsed - 1) + 2*s), s
\* being the seconds left on the play countdown when the win is evaluated.
C11_ScoreUsesSecondsLeft ==
  memo.gameState = "success" =>
    memo.stats.score =
      Max(0, 1000 - 100 * (memo.stats.movesUsed - 1) + 2 * timeRef)

\* C12: for every wheel of at least one segment and every final angle
\* (negative, above 360, multiples of 360 and of the segment width)
\* calculateWinningSegment returns an index in 0..numSegments-1, in both
\* versions of the function.
C12_WinningSegmentInRange ==
  (wheelProbe # <<>> /\ wheelProbe.numSegments >= 1) =>
     /\ wheelProbe.index \in 0..(wheelProbe.numSegments - 1)
     /\ wheelProbe.rounded \in 0..(wheelProbe.numSegments - 1)

\* the function was called with a negative multiple of the segment width on
\* a wheel of three segments
C12_Witness ==
  /\ wheelProbe # <<>>
  /\ wheelProbe.numSegments = 3
  /\ wheelProbe.finalAngleDeg = -240
  /\ wheelProbe.index = 2

C14_DarSaludSegmentsApart ==
  buildProbe # <<>> =>
    LET segments == buildProbe.segments
        darSalud == {s \in DOMAIN segments :
                       startsWithDarSalud(segments[s].questions[1].category)}
    IN (Cardinality(darSalud) = 2 /\ Len(segments) >= 4) =>
         \A a, b \in darSalud :
           a < b => (b - a > 1 /\ ~(a = 1 /\ b = Len(segments)))

\* two "Dar Salud" segments among six, at the third and the sixth place
C14_Witness ==
  /\ buildProbe # <<>>
  /\ Len(buildProbe.segments) = 6
  /\ {s \in 1..6 : buildProbe.segments[s].text = "Dar Salud"} = {3, 6}

(***************************************************************************)
(* C15: in every result of createRouletteSegments with at least 4          *)
(* segments, no two segments next to each other on the circle, the last    *)
(* and the first included, have the same colour.                           *)
(***************************************************************************)
C15_NoAdjacentEqualColours ==
  (buildProbe # <<>> /\ Len(buildProbe.segments) >= 4) =>
    LET segments == buildProbe.segments
    IN \A s \in DOMAIN segments :
         segments[s].color # segments[(s % Len(segments)) + 1].color

(***************************************************************************)
(* C16: once the wheel has stopped (spinState.isSpinning = FALSE), a call  *)
(* of updateAnimation, repeated any number of times, leaves the spin       *)
(* state, the recorded winner and the history as they are, and             *)
(* updateSpinState returns the stopped state itself.                       *)
(***************************************************************************)
C16_FrameAfterStopChangesNothing ==
  [][(/\ ~spinState.isSpinning
      /\ spinCall' \notin {"startSpin", "loadQuestions", "returnToRoulette",
                           "returnToStart"})
       => /\ UNCHANGED <<spinState, pendingSpin, gameStore, resolved>>
          /\ updateSpinState(spinState) = spinState]_vars

\* updateAnimation was called on a wheel that stopped with a winner recorded
C16_Witness ==
  /\ spinCall = "idleFrame"
  /\ ~spinState.isSpinning
  /\ resolved = 1
  /\ gameStore.lastSpinResultIndex # NoIndex
  /\ Len(gameStore.recentSpinSegments) = 2

(***************************************************************************)
(* C17: startSpin called while the wheel is spinning, or while there are   *)
(* no segments, changes nothing: the spin state (target, start angle,      *)
(* frames), the history and the recorded winner keep their values; the     *)
(* target of a spin never changes while it spins, and the spin stops at    *)
(* that target reduced into [0, 360).                                      *)
(***************************************************************************)
C17_StartSpinRefused ==
  /\ [][(spinCall' = "startSpin" /\ (spinState.isSpinning \/ segmentsLength = 0))
          => UNCHANGED <<spinState, pendingSpin, gameStore, resolved>>]_vars
  /\ [][spinState.isSpinning
          => /\ spinState'.targetAngle = spinState.targetAngle
             /\ spinState'.initialAngle \in {spinState.initialAngle, NoAngle}
             /\ spinState'.spinDuration = spinState.spinDuration]_vars
  /\ []((spinCall = "render" /\ ~spinState.isSpinning)
          => spinState.currentAngle = spinState.targetAngle % 360)

\* startSpin was called on a wheel that had already advanced a frame
C17_Witness ==
  /\ spinCall = "startSpin"
  /\ spinState.isSpinning
  /\ spinState.elapsedFrames > 0

(***************************************************************************)
(* C18: in the playing phase flipCard with an id that names no card, or    *)
(* with a card that is face-up or matched, leaves the whole store as it    *)
(* is.                                                                     *)
(***************************************************************************)
C18_InvalidFlipChangesNothing ==
  [][(/\ flipProbe # <<>>
      /\ flipProbe' # <<>>
      /\ flipProbe'.call = "flipCard"
      /\ flipProbe.store.gameState = "playing"
      /\ \/ flipProbe'.cardId \notin CardIds
         \/ flipProbe.store.cardsById[flipProbe'.cardId].isFlipped
         \/ flipProbe.store.cardsById[flipProbe'.cardId].isMatched)
       => flipProbe'.store = flipProbe.store]_vars

(***************************************************************************)
(* C19: when the reveal timer finds the two cards of a pair equal, both    *)
(* become matched, face-up, and matchesFound grows by exactly 1; a matched *)
(* card stays matched and face-up under every later step (flips,           *)
(* mismatches, ticks, timers) except those that start a run again or       *)
(* reset the game.                                                         *)
(***************************************************************************)
C19_MatchedStaysMatched ==
  /\ [][(/\ lastCall' = "matchTimer"
         /\ matchTimer # <<>>
         /\ checkMatch(matchTimer[1], matchTimer[2]))
          => /\ memo'.stats.matchesFound = memo.stats.matchesFound + 1
             /\ \A i \in 1..2 :
                  /\ memo'.cardsById[matchTimer[i]].isMatched
                  /\ memo'.cardsById[matchTimer[i]].isFlipped]_vars
  /\ [][\A c \in DOMAIN memo.cardsById :
          (/\ memo.cardsById[c].isMatched
           /\ lastCall' \notin {"mountGame", "startTimer", "defeatPlayAgain",
                                "replayTimer", "defeatBackToStart",
                                "prizePlayAgain", "prizeBackToStart"})
            => /\ c \in DOMAIN memo'.cardsById
               /\ memo'.cardsById[c].isMatched
               /\ memo'.cardsById[c].isFlipped]_vars

\* one attempt matched and one did not, and a second then passed with the
\* matched card still face-up
C19_Witness ==
  /\ memo.gameState = "playing"
  /\ lastCall = "playTick"
  /\ memo.stats.matchesFound = 1
  /\ memo.stats.movesUsed = 2
  /\ memo.selectedCards = <<>>
  /\ \E c \in DOMAIN memo.cardsById :
       memo.cardsById[c].isMatched /\ memo.cardsById[c].isFlipped

(***************************************************************************)
(* C20: bestScore changes only in a step that ends in a win whose score is *)
(* greater than the bestScore before it (no best yet counting as less than *)
(* every score), and then becomes that score; such a win always sets it;   *)
(* through runs, wins, losses, restarts and resets it never decreases.     *)
(***************************************************************************)
C20_BestScoreOnlyGrows ==
  /\ [][memo'.stats.bestScore # memo.stats.bestScore
          => /\ memo'.gameState = "success"
             /\ memo'.stats.score > memo.stats.bestScore
             /\ memo'.stats.bestScore = memo'.stats.score]_vars
  /\ [][(/\ memo.gameState = "playing"
         /\ memo'.gameState = "success"
         /\ memo'.stats.score > memo.stats.bestScore)
          => memo'.stats.bestScore = memo'.stats.score]_vars
  /\ [][memo'.stats.bestScore >= memo.stats.bestScore]_vars

\* a win with a lower score than the best of an earlier run
C20_Witness ==
  /\ memo.gameState = "success"
  /\ memo.stats.score > 0
  /\ memo.stats.bestScore > memo.stats.score

(***************************************************************************)
(* C21: a restart asked for while the phase is failed or prize (play       *)
(* again in DefeatModal or PrizePhase) takes the phase to shuffling in     *)
(* that very step, with fresh cards; the phase is never waiting between    *)
(* the request and shuffling.                                              *)
(***************************************************************************)
C21_RestartGoesToShuffling ==
  [][(/\ memo.gameState \in {"failed", "prize"}
      /\ lastCall' \in {"defeatPlayAgain", "prizePlayAgain"})
       => /\ memo'.gameState = "shuffling"
          /\ memo'.cardsById = freshCards
          /\ memo'.cardOrder \in Decks]_vars

(***************************************************************************)
(* C22: whenever the phase enters shuffling, and after every reset,        *)
(* movesUsed, matchesFound, timeElapsed and score are 0, no card is        *)
(* selected and no pair is being processed, whatever the run before; the   *)
(* steps that begin a run or reset the game keep bestScore.                *)
(***************************************************************************)
C22_RunStartsClean ==
  /\ [][(\/ (memo'.gameState = "shuffling" /\ memo.gameState # "shuffling")
         \/ lastCall' \in {"defeatBackToStart", "prizeBackToStart"})
          => /\ memo'.stats.movesUsed = 0
             /\ memo'.stats.matchesFound = 0
             /\ memo'.stats.timeElapsed = 0
             /\ memo'.stats.score = 0
             /\ memo'.selectedCards = <<>>
             /\ ~memo'.isProcessing]_vars
  /\ [][lastCall' \in {"mountGame", "startTimer", "defeatPlayAgain", "replayTimer",
                       "defeatBackToStart", "prizePlayAgain", "prizeBackToStart"}
          => memo'.stats.bestScore = memo.stats.bestScore]_vars

\* a run begun again from the prize screen after a win
C22_Witness ==
  /\ lastCall = "prizePlayAgain"
  /\ memo.gameState = "shuffling"
  /\ memo.stats.movesUsed = 0
  /\ memo.stats.bestScore > 0

(***************************************************************************)
(* C23: when every timer set does fire, a run that has entered shuffling   *)
(* reaches failed or prize, whatever the player does or does not do; the   *)
(* game never stays for ever in shuffling, memorizing, playing or success. *)
(***************************************************************************)
C23_RunEnds ==
  (memo.gameState = "shuffling") ~> (memo.gameState \in {"failed", "prize"})

\* C24: while the clock is paused nothing is delivered; resume() restarts the
\* countdown at the elapsed value the clock held when it was paused, so its
\* timeLeft right after resume() is the last delivered value however long the
\* pause lasted; a resumed countdown that is not stopped, paused or replaced
\* again ends on 0.
C24_PauseKeepsTimeLeft ==
  /\ [][(~clock.isRunning /\ lastClockCall' # "start")
           => ticks' = ticks]_vars
  /\ [][(/\ lastClockCall' = "resume"
         /\ ~clock.isRunning
         /\ clock.callback # NoCallback)
           => /\ clock'.isRunning
              /\ clock'.elapsed = clock.elapsed
              /\ timeLeftOf(clock') = clock.duration - clock.elapsed
              /\ timeLeftOf(clock') = ticks[Len(ticks)]
              /\ timeLeftOf(clock') >= timeLeftOf(clock)]_vars
  /\ \A n \in 1..MaxStarts :
        (started = n /\ wasResumed /\ clock.isRunning) ~>
           \/ started # n
           \/ lastClockCall \in {"stop", "pause"}
           \/ clock.callback = NoCallback /\ ticks[Len(ticks)] = 0

\* a countdown of the longest duration was paused and resumed and still
\* delivered every value down to 0
C24_Witness ==
  /\ wasResumed
  /\ started = 1
  /\ clock.duration = MaxDuration
  /\ ticks = [i \in 1..(MaxDuration + 1) |-> MaxDuration + 1 - i]
  /\ clock.callback = NoCallback

\* C25: once stop() has returned (called directly, or from inside onTick on
\* the initial value or on an interval tick) the clock is not running, holds
\* no callback and no live timer, and nothing is delivered until the next
\* start; stop() on a stopped or never started clock changes nothing, and
\* resume() on a stopped clock changes nothing.
C25_StopIsFinal ==
  /\ []((\/ lastClockCall = "stop"
         \/ lastClockCall = "start" /\ ~clock.isRunning)
          => /\ ~clock.isRunning
             /\ clock.callback = NoCallback
             /\ clock.intervalId = NoTimer
             /\ DOMAIN clock.timers = {})
  /\ [][(clock.callback = NoCallback /\ started' = started)
          => ticks' = ticks]_vars
  /\ [](/\ stop(stop(clock)) = stop(clock)
        /\ stop(initialClock) = initialClock
        /\ resume(stop(clock)) = stop(clock))

\* C26: on a wheel of 6 segments whose history holds exactly the two winners
\* 2, 2 (an empty history and two spins that resolved to 2), a spin whose
\* physical winner is 2 reports index 3 and records it.
C26_ThirdRepeatMovesOn ==
  [][(/\ segmentsLength = 6
      /\ gameStore.recentSpinSegments = <<2, 2>>
      /\ spinCall' = "complete"
      /\ physical' = 2)
        => /\ gameStore'.lastSpinResultIndex = 3
           /\ gameStore'.recentSpinSegments = <<2, 2, 3>>]_vars

\* the third spin has stopped on segment 2 and index 3 is reported and recorded
C26_Witness ==
  /\ segmentsLength = 6
  /\ spinCall = "complete"
  /\ physical = 2
  /\ gameStore.lastSpinResultIndex = 3
  /\ gameStore.recentSpinSegments = <<2, 2, 3>>

\* C27: when the delayed check of PlayingPhase resolves the attempt that
\* brought movesUsed to maxMoves and the run then has fewer than
\* requiredPairs matches (one match and two mismatches in any order, or
\* none), the phase becomes failed in the same step, with time remaining or
\* not; so no playing state has maxMoves resolved attempts and fewer than
\* requiredPairs matches.
C27_FailsOnThirdAttempt ==
  /\ [][(/\ memo.gameState = "playing"
         /\ memo.isProcessing
         /\ memo.stats.movesUsed = maxMoves
         /\ lastCall' = "matchTimer"
         /\ memo'.stats.matchesFound < requiredPairs)
           => memo'.gameState = "failed"]_vars
  /\ []((/\ memo.gameState = "playing"
         /\ memo.stats.movesUsed >= maxMoves
         /\ memo.stats.matchesFound < requiredPairs)
          => memo.isProcessing)

\* the third attempt has just been resolved with one match in the run and
\* time left on the clock, and the phase is failed
C27_Witness ==
  /\ lastCall = "matchTimer"
  /\ attempts = maxMoves
  /\ memo.stats.movesUsed = maxMoves
  /\ memo.stats.matchesFound = 1
  /\ timeRef > 0
  /\ memo.gameState = "failed"

\* C28: a countdown of 1 or more seconds (5 among them) that is started and
\* left alone while its timer fires on every 1000 ms boundary delivers
\* duration, duration - 1, ..., 0 in that order, each once and one per elapsed
\* second (the first inside start), and the clock is stopped, with no live
\* timer, once 0 has been delivered.
C28_ExactCountdown ==
  clock.duration >= 1
    => /\ Len(ticks) <= clock.duration + 1
       /\ \A i \in 1..Len(ticks) : ticks[i] = clock.duration + 1 - i
       /\ (clock.isRunning /\ \A t \in DOMAIN clock.timers : clock.timers[t] > 0)
             => Len(ticks) = 1 + clock.since \div SubSeconds
       /\ Len(ticks) = clock.duration + 1
             => /\ ~clock.isRunning
                /\ clock.callback = NoCallback
                /\ DOMAIN clock.timers = {}
       /\ clock.isRunning => Len(ticks) <= clock.duration

\* start(5, cb) has delivered 5, 4, 3, 2, 1, 0 and the clock has stopped
C28_Witness ==
  /\ clock.duration = 5
  /\ ticks = <<5, 4, 3, 2, 1, 0>>
  /\ lastClockCall = "tick"
  /\ ~clock.isRunning

\* C29: for every wheel size that is zero or negative and every angle,
\* calculateWinningSegment returns -1, in both versions of the function.
C29_NoSegmentsNoWinner ==
  (wheelProbe # <<>> /\ wheelProbe.numSegments <= 0) =>
     /\ wheelProbe.index = -1
     /\ wheelProbe.rounded = -1

\* C30: for every wheel of at least one segment and every angle, with a the
\* angle reduced into 0..359, calculateWinningSegment returns
\* floor(((360 - a) mod 360) / (360 / numSegments)) mod numSegments, in both
\* versions of the function (so angle 0 gives index 0).
C30_WinnerFormula ==
  (wheelProbe # <<>> /\ wheelProbe.numSegments >= 1) =>
     LET a == wheelProbe.finalAngleDeg % 360
         numSegments == wheelProbe.numSegments
         expected == ((((360 - a) % 360) * numSegments) \div 360) % numSegments
     IN /\ wheelProbe.index = expected
        /\ wheelProbe.rounded = expected
        /\ a = 0 => expected = 0

\* C31: customEasingFunction gives 0 at t = 0 and 1 at t = 1, stays within
\* [0, 1] on [0, 1] and never decreases from one thousandth to the next, the
\* steps across t = 0.2 and t = 0.7 included.
C31_EasingMonotone ==
  easeProbe # <<>> =>
     /\ easeProbe.eased \in 0..1000
     /\ easeProbe.eased <= easeProbe.next
     /\ easeProbe.t = 0 => easeProbe.eased = 0
     /\ easeProbe.t = 1000 => easeProbe.eased = 1000

\* the function was called on the last thousandth of the middle piece and on
\* the first of the last piece
C31_Witness ==
  /\ easeProbe # <<>>
  /\ easeProbe.t = 699
  /\ easeProbe.eased = 898
  /\ easeProbe.next = 900

\* C32: the spin history never holds more than maxHistoryLength indices; a
\* completed spin appends its recorded winner at the end, and when the
\* history was full it removes the oldest entry and nothing else, the other
\* entries keeping their order.
C32_HistoryKeepsLastThree ==
  /\ [](Len(gameStore.recentSpinSegments) <= maxHistoryLength)
  /\ [][spinCall' = "complete"
          => LET h == gameStore.recentSpinSegments
                 winner == gameStore'.lastSpinResultIndex
             IN gameStore'.recentSpinSegments =
                  IF Len(h) = maxHistoryLength
                    THEN Append(Tail(h), winner)
                    ELSE Append(h, winner)]_vars

\* a spin has completed on a full history: the history still holds three
\* indices and ends with the recorded winner
C32_Witness ==
  /\ spinCall = "complete"
  /\ lengthBefore = maxHistoryLength
  /\ Len(gameStore.recentSpinSegments) = maxHistoryLength
  /\ gameStore.recentSpinSegments[maxHistoryLength] = gameStore.lastSpinResultIndex

\* C33: the rendered spin state changes only by a start (elapsedFrames 0 of
\* spinDuration), by an advancing update (elapsedFrames below spinDuration,
\* one more afterwards, same target) or by the finalizing update, which comes
\* when elapsedFrames has reached spinDuration and leaves isSpinning false and
\* currentAngle equal to targetAngle reduced into [0, 360); when frames and
\* renders keep coming a spinning wheel does finalize.
C33_SpinFinalizes ==
  /\ [][spinState' # spinState =>
          \/ /\ ~spinState.isSpinning
             /\ spinState'.isSpinning
             /\ spinState'.elapsedFrames = 0
             /\ spinState'.spinDuration = SpinFrames
          \/ /\ spinState.isSpinning
             /\ spinState'.isSpinning
             /\ spinState.elapsedFrames < spinState.spinDuration
             /\ spinState'.elapsedFrames = spinState.elapsedFrames + 1
             /\ spinState'.targetAngle = spinState.targetAngle
             /\ spinState'.spinDuration = spinState.spinDuration
          \/ /\ spinState.isSpinning
             /\ ~spinState'.isSpinning
             /\ spinState.elapsedFrames = spinState.spinDuration
             /\ spinState'.currentAngle = spinState.targetAngle % 360
             /\ spinState'.currentAngle \in 0..359]_vars
  /\ spinState.isSpinning ~> ~spinState.isSpinning

\* a spin of at least MinRotations turns has been finalized and rendered
C33_Witness ==
  /\ spinCall = "render"
  /\ ~spinState.isSpinning
  /\ resolved >= 1
  /\ spinState.targetAngle >= 360 * MinRotations
  /\ spinState.currentAngle = spinState.targetAngle % 360

\* C34: while a pair is being processed (from the flip that selected its
\* second card until the pair is resolved) a call of flipCard changes
\* nothing, whatever card it names; so in the playing phase at most two
\* cards are face-up and unmatched, and two selected cards mean a pair is
\* being processed.
C34_NoFlipDuringReveal ==
  /\ [][(/\ flipProbe # <<>>
         /\ flipProbe.store.isProcessing
         /\ flipProbe' # <<>>
         /\ flipProbe'.call = "flipCard")
           => flipProbe'.store = flipProbe.store]_vars
  /\ []((flipProbe # <<>> /\ flipProbe.store.gameState = "playing")
          => /\ Len(FlippedCards(flipProbe.store)) <= 2
             /\ Cardinality({id \in DOMAIN flipProbe.store.cardsById :
                               /\ flipProbe.store.cardsById[id].isFlipped
                               /\ ~flipProbe.store.cardsById[id].isMatched}) <= 2
             /\ Len(flipProbe.store.selectedCards) <= 2
             /\ Len(flipProbe.store.selectedCards) = 2
                   => flipProbe.store.isProcessing)

\* flipCard was called on a face-down card while a pair was being processed
\* and the card is still face-down
C34_Witness ==
  /\ flipProbe # <<>>
  /\ flipProbe.call = "flipCard"
  /\ flipProbe.cardId \in CardIds
  /\ flipProbe.store.gameState = "playing"
  /\ flipProbe.store.isProcessing
  /\ Len(FlippedCards(flipProbe.store)) = 2
  /\ ~flipProbe.store.cardsById[flipProbe.cardId].isFlipped

\* C36: movesUsed never exceeds maxMoves, and a call of flipCard made when
\* movesUsed has reached maxMoves changes nothing.
C36_NoFlipAfterMaxMoves ==
  /\ [](memo.stats.movesUsed <= maxMoves)
  /\ [][(memo.stats.movesUsed >= maxMoves /\ lastCall' = "flipCard")
          => memo' = memo]_vars

\* C35: when an onTick callback has called start from the interval closure
\* (on any value, 0 included) and the closure has returned, the new countdown
\* is running: the clock is running, holds the new callback and its interval
\* timer is live.
C35_RestartFromCallbackSurvives ==
  lastClockCall = "restart"
    => /\ clock.isRunning
       /\ clock.callback = started
       /\ clock.intervalId \in DOMAIN clock.timers

\* C38: every tick of a countdown that was not resumed hands onTick
\* max(0, duration - whole seconds of wall-clock time since start), however
\* late the interval timer runs; so 0 is handed over exactly by the first
\* tick that runs duration seconds or more after start.
C38_TickFollowsWallClock ==
  [][(lastClockCall' = "tick" /\ ~wasResumed /\ ticks' # ticks)
       => /\ ticks' = Append(ticks, Max(0, clock.duration
                                            - clock.since \div SubSeconds))
          /\ ticks'[Len(ticks')] = 0
               <=> clock.since >= clock.duration * SubSeconds]_vars

\* a late tick: the countdown of the longest duration went from its initial
\* value straight to 0
C38_Witness ==
  /\ lastClockCall = "tick"
  /\ ~wasResumed
  /\ clock.duration = MaxDuration
  /\ ticks = <<MaxDuration, 0>>

\* C39: a completed spin records a winner other than the physical one only
\* when the history held two entries or more and its two most recent entries
\* were both the physical winner; otherwise the physical winner is recorded.
C39_AdjustedOnlyAfterTwoRepeats ==
  [][(spinCall' = "complete" /\ physical' >= 0)
       => LET h == gameStore.recentSpinSegments
              n == Len(h)
          IN \/ gameStore'.lastSpinResultIndex = physical'
             \/ /\ n >= 2
                /\ h[n] = physical'
                /\ h[n - 1] = physical']_vars

\* a spin was completed and recorded a winner other than the physical one
C39_Witness ==
  /\ spinCall = "complete"
  /\ physical >= 0
  /\ gameStore.lastSpinResultIndex # physical

\* C40: when the store enters memorizing every card is face-up; when it
\* enters playing every card is face-down and unmatched, no card is selected
\* and no pair is being checked, so that flipCard turns any card of the deck.
C40_PhasesStartClean ==
  [][/\ (memo.gameState # "memorizing" /\ memo'.gameState = "memorizing")
          => \A c \in DOMAIN memo'.cardsById : memo'.cardsById[c].isFlipped
     /\ (memo.gameState # "playing" /\ memo'.gameState = "playing")
          => /\ \A c \in DOMAIN memo'.cardsById :
                   /\ ~memo'.cardsById[c].isFlipped
                   /\ ~memo'.cardsById[c].isMatched
             /\ memo'.selectedCards = <<>>
             /\ ~memo'.isProcessing
             /\ \A c \in CardIds :
                   /\ c \in DOMAIN memo'.cardsById
                   /\ flipCard(memo', c).cardsById[c].isFlipped]_vars

\* the hiding timer has just put a dealt deck into play
C40_Witness ==
  /\ lastCall = "hideTimer"
  /\ memo.gameState = "playing"
  /\ DOMAIN memo.cardsById = CardIds
  /\ \A c \in CardIds : ~memo.cardsById[c].isFlipped

\* C37: for one trivia question onAnswered is invoked at most once and the
\* prize feedback is written at most once, also when the timer runs out
\* during the 400 ms between selecting an option and revealing it.
C37_OneOutcomePerQuestion ==
  /\ Len(answered) <= 1
  /\ feedbackWrites <= 1

====
